---------------------------- MODULE Spec2Model ----------------------------
(***************************************************************************)
(* A model of the benchmarking core of PDFPipeline:                        *)
(*   - the page-range reconciler  (benchmark/runner.py,                    *)
(*     BenchmarkRunner._compare_table_pages),                              *)
(*   - the continuation detector  (core/extractors/pymupdf_extractors.py,  *)
(*     PyMuPDFExtractor._extract_tables_detailed),                         *)
(*   - the two benchmark runs     (BenchmarkRunner.run and                 *)
(*     CSVBenchmarkRunner.run).                                            *)
(* Each part has its own variables, initial states and next-state          *)
(* relation; a specification of one part leaves the others' variables      *)
(* unchanged.  Python's None is modelled by 0 for an optional page number  *)
(* and by the empty tuple for an optional page range.                      *)
(***************************************************************************)
EXTENDS Integers, Sequences, FiniteSets, TLC

VARIABLES
    \* ---- reconciler (_compare_table_pages) ----
    gt_tables,          \* argument: the ground-truth TableDefinitions
    extracted_tables,   \* argument: the adapter's ExtractedTables
    used_extracted,     \* set of table_ids already consumed
    comparisons,        \* the result list being built
    best_matches,       \* per ground-truth turn, the best_match picked (index
                        \* into main_extracted, 0 for None)
    gt_idx,             \* position of the outer loop
    rpc,                \* "gt" | "extra" | "done"
    \* ---- continuation detector (_extract_tables_detailed) ----
    detect_continuations,   \* constructor flag
    extract_data,           \* constructor flag
    doc_pages,              \* what find_tables returned, page by page, so far
    page_number,            \* the current page (1-based), 0 before the first
    page_tables,            \* the fragments of the current page
    idx,                    \* position in page_tables (1-based)
    d_extracted_tables,     \* the local list extracted_tables
    legacy_data,
    logical_table_id,
    total_continuations,
    last_table_info,        \* NoInfo for None
    current_spanning_table, \* index into d_extracted_tables, 0 for None
    spanning_data,
    d_result,               \* the returned dict, NoResult until the return
    dpc,                    \* "page" | "tables" | "done"
    \* ---- benchmark runs (BenchmarkRunner.run, CSVBenchmarkRunner.run) ----
    runner,             \* "pages" | "csv": which of the two runs this is
    files,              \* argument: the file names, in order
    manifest,           \* the runner's ground-truth manifest
    extractors,         \* the runner's adapters: their names, in order
    file_idx,           \* position of the loop over files
    ext_idx,            \* position of the loop over extractors
    tool_metrics,       \* result.tool_metrics
    detailed_results,   \* result.detailed_results   (BenchmarkRunner)
    table_reports,      \* result.table_reports      (BenchmarkRunner)
    table_comparisons,  \* result.table_comparisons  (CSVBenchmarkRunner)
    extract_calls,      \* the calls of extractor.extract made so far
    run_pc,             \* "running" | "returned" | "raised"
    \* ---- cell comparator (_compare_tables, _compare_cells, _parse_number) ----
    cmode,                  \* "cells" | "parse" | "tables": the function called
    normalize_whitespace,   \* constructor flag
    case_insensitive,       \* constructor flag
    numeric_tolerance,      \* constructor argument, in 1/FloatScale
    c_expected,             \* _compare_cells: argument expected
    c_actual,               \* _compare_cells: argument actual
    cell_result,            \* _compare_cells: the returned pair
    c_value,                \* _parse_number: argument value
    parsed,                 \* _parse_number: the returned Optional[float]
    gt_df,                  \* _compare_tables: gt.dataframe
    ext_df,                 \* _compare_tables: extracted.to_dataframe()
    has_header,             \* _compare_tables: gt.has_header
    table_result,           \* _compare_tables: the returned result
    cpc,                    \* "call" | "done"
    \* ---- ranking (BenchmarkResult.get_ranking, CSVBenchmarkResult.get_ranking) ----
    k_kind,             \* "pages" | "csv": the class of the result
    k_tool_metrics,     \* result.tool_metrics.items(): << name, metrics >> in
                        \* insertion order
    k_metric,           \* argument: the name of the metric
    k_ranking,          \* the returned list of << name, value >>
    kpc,                \* "call" | "done"
    \* --- the manifests' add and remove ---
    m_kind,             \* "pages" | "csv" | "none": the manifest in use
    documents,          \* GroundTruthManifest.documents
    csv_tables,         \* CSVGroundTruthManifest.tables
    m_call,             \* the last call of add or remove
    \* --- save and load of a manifest ---
    s_kind,             \* "pages" | "csv" | "none": the manifest's class
    s_manifest,         \* the entries in memory
    s_text,             \* the JSON document save() wrote
    s_loaded,           \* the entries load() made of it
    spc                 \* "memory" | "saved" | "loaded"

rvars == <<gt_tables, extracted_tables, used_extracted, comparisons,
           best_matches, gt_idx, rpc>>

dvars == <<detect_continuations, extract_data, doc_pages, page_number,
           page_tables, idx, d_extracted_tables, legacy_data, logical_table_id,
           total_continuations, last_table_info, current_spanning_table,
           spanning_data, d_result, dpc>>

bvars == <<runner, files, manifest, extractors, file_idx, ext_idx, tool_metrics,
           detailed_results, table_reports, table_comparisons, extract_calls,
           run_pc>>

cvars == <<cmode, normalize_whitespace, case_insensitive, numeric_tolerance,
           c_expected, c_actual, cell_result, c_value, parsed, gt_df, ext_df,
           has_header, table_result, cpc>>

kvars == <<k_kind, k_tool_metrics, k_metric, k_ranking, kpc>>

mvars == <<m_kind, documents, csv_tables, m_call>>

svars == <<s_kind, s_manifest, s_text, s_loaded, spc>>

vars == <<rvars, dvars, bvars, cvars, kvars, mvars, svars>>

\* ------------------------------------------------------------------------
\* Bounds of the model
\* ------------------------------------------------------------------------
MaxPage == 3
MaxGT == 2
MaxExt == 3
MaxDocPages == 3
MaxFragments == 3

\* ------------------------------------------------------------------------
\* Helpers
\* ------------------------------------------------------------------------
NoPages == << >>

RECURSIVE SeqSum(_)
SeqSum(s) == IF s = << >> THEN 0 ELSE Head(s) + SeqSum(Tail(s))

SeqToSet(s) == { s[i] : i \in 1..Len(s) }

SeqsUpTo(S, lo, hi) == UNION { [1..n -> S] : n \in lo..hi }

\* ------------------------------------------------------------------------
\* ExtractedTable (core/extractors/base.py)
\* ------------------------------------------------------------------------
\* end = continues_to_page if continues_to_page else page
page_range(t) ==
    << t.page, IF t.continues_to_page # 0 THEN t.continues_to_page ELSE t.page >>

is_spanning(t) == t.continues_to_page # 0 /\ t.continues_to_page > t.page

\* ------------------------------------------------------------------------
\* Inputs of the reconciler
\* ------------------------------------------------------------------------
\* TableDefinition: table_id, start_page, end_page (end_page >= start_page;
\* __post_init__ turns end_page 0 into start_page).
Ranges == { r \in (1..MaxPage) \X (1..MaxPage) : r[1] <= r[2] }

MkGT(rs) ==
    [ i \in 1..Len(rs) |->
        [table_id |-> i, start_page |-> rs[i][1], end_page |-> rs[i][2]] ]

\* run() calls the reconciler only for a non-empty gt.tables.
GTLists == { MkGT(rs) : rs \in SeqsUpTo(Ranges, 1, MaxGT) }

\* An adapter's table list, in the order the adapters append: page by page,
\* a new logical table takes the next table_id, a continuation marker
\* follows the table it continues on the next page and carries its id.
\* A shape is a sequence of <<page, is_continuation>>.
ShapeOK(sh) ==
    \A i \in 1..Len(sh) :
        IF sh[i][2]
        THEN i > 1 /\ sh[i][1] = sh[i-1][1] + 1
        ELSE i = 1 \/ sh[i][1] >= sh[i-1][1]

\* Last index of the run of continuation markers that follows entry i.
RECURSIVE RunEnd(_, _)
RunEnd(sh, i) ==
    IF i < Len(sh) /\ sh[i+1][2] THEN RunEnd(sh, i + 1) ELSE i

MkExtracted(sh) ==
    [ i \in 1..Len(sh) |->
        [ table_id |-> Cardinality({ j \in 1..i : ~sh[j][2] }),
          page |-> sh[i][1],
          is_continuation |-> sh[i][2],
          continues_to_page |->
              IF ~sh[i][2] /\ RunEnd(sh, i) > i THEN sh[RunEnd(sh, i)][1] ELSE 0 ] ]

ExtractedLists ==
    { MkExtracted(sh) :
        sh \in { s \in SeqsUpTo((1..MaxPage) \X BOOLEAN, 0, MaxExt) : ShapeOK(s) } }

\* ------------------------------------------------------------------------
\* The reconciler: BenchmarkRunner._compare_table_pages
\* ------------------------------------------------------------------------
\* Mutant: strict comparisons, so ranges that only share an end page do not
\* count as overlapping.
_ranges_overlap_Strict(range1, range2) ==
    range1[1] < range2[2] /\ range2[1] < range1[2]

\* Mutant: "or" in place of "and".
_ranges_overlap_Or(range1, range2) ==
    range1[1] <= range2[2] \/ range2[1] <= range1[2]

_ranges_overlap(range1, range2) ==
    range1[1] <= range2[2] /\ range2[1] <= range1[2]

\* main_extracted = [t for t in extracted_tables if not t.is_continuation]
IsMain(t) == ~t.is_continuation

\* Mutant: the list without the filter on is_continuation.
main_extracted_All(ext) == ext

main_extracted(ext) == SelectSeq(ext, IsMain)

\* The inner for-loop over main_extracted, from position i on, with the
\* loop's running best_match (an index, 0 for None) and best_status.
RECURSIVE ScanExtracted(_, _, _, _, _, _)
ScanExtracted(main, i, gt_range, used, best_match, best_status) ==
    IF i > Len(main)
    THEN [match |-> best_match, status |-> best_status]
    ELSE IF main[i].table_id \in used
    THEN ScanExtracted(main, i + 1, gt_range, used, best_match, best_status)
    ELSE IF page_range(main[i]) = gt_range
    THEN [match |-> i, status |-> "exact"]
    ELSE IF _ranges_overlap(gt_range, page_range(main[i])) /\ best_status # "exact"
    THEN ScanExtracted(main, i + 1, gt_range, used, i, "partial")
    ELSE ScanExtracted(main, i + 1, gt_range, used, best_match, best_status)

\* Mutant: the scan without its exact-match branch (every hit is "partial").
RECURSIVE ScanOverlapOnly(_, _, _, _, _, _)
ScanOverlapOnly(main, i, gt_range, used, best_match, best_status) ==
    IF i > Len(main)
    THEN [match |-> best_match, status |-> best_status]
    ELSE IF main[i].table_id \notin used /\ _ranges_overlap(gt_range, page_range(main[i]))
    THEN ScanOverlapOnly(main, i + 1, gt_range, used, i, "partial")
    ELSE ScanOverlapOnly(main, i + 1, gt_range, used, best_match, best_status)

FindMatch_OverlapOnly(main, gt_range, used) ==
    ScanOverlapOnly(main, 1, gt_range, used, 0, "missing")

\* Mutant: the scan without the "already used" skip.
FindMatch_IgnoreUsed(main, gt_range, used) ==
    ScanExtracted(main, 1, gt_range, {}, 0, "missing")

\* One ground-truth turn: the body of "for gt_table in gt_tables".
FindMatch(main, gt_range, used) ==
    ScanExtracted(main, 1, gt_range, used, 0, "missing")

GTRange(g) == << g.start_page, g.end_page >>

GTComparison(g, main, m) ==
    [ table_id |-> g.table_id,
      gt_pages |-> GTRange(g),
      extracted_pages |-> IF m.match # 0 THEN page_range(main[m.match]) ELSE NoPages,
      match_status |-> m.status ]

\* Mutant: the second loop without its "not in used_extracted" test.
ExtraComparisons_All(main, used) ==
    [ i \in 1..Len(main) |->
        [ table_id |-> main[i].table_id,
          gt_pages |-> << 0, 0 >>,
          extracted_pages |-> page_range(main[i]),
          match_status |-> "extra" ] ]

\* The second loop: one "extra" entry per main table whose id is not used.
ExtraComparisons(main, used) ==
    LET unusedMain == SelectSeq(main, LAMBDA t : t.table_id \notin used)
    IN  [ i \in 1..Len(unusedMain) |->
            [ table_id |-> unusedMain[i].table_id,
              gt_pages |-> << 0, 0 >>,
              extracted_pages |-> page_range(unusedMain[i]),
              match_status |-> "extra" ] ]

InitReconcile ==
    /\ gt_tables \in GTLists
    /\ extracted_tables \in ExtractedLists
    /\ used_extracted = {}
    /\ comparisons = << >>
    /\ best_matches = << >>
    /\ gt_idx = 1
    /\ rpc = "gt"

CompareGTTable ==
    /\ rpc = "gt"
    /\ gt_idx <= Len(gt_tables)
    /\ LET main == main_extracted(extracted_tables)
           g == gt_tables[gt_idx]
           m == FindMatch(main, GTRange(g), used_extracted)
       IN  /\ used_extracted' =
                 IF m.match # 0
                 THEN used_extracted \cup { main[m.match].table_id }
                 ELSE used_extracted
           /\ comparisons' = Append(comparisons, GTComparison(g, main, m))
           /\ best_matches' = Append(best_matches, m.match)
    /\ gt_idx' = gt_idx + 1
    /\ UNCHANGED << gt_tables, extracted_tables, rpc >>
    /\ UNCHANGED << dvars, bvars, cvars, kvars, mvars, svars >>

GTLoopEnd ==
    /\ rpc = "gt"
    /\ gt_idx > Len(gt_tables)
    /\ rpc' = "extra"
    /\ UNCHANGED << gt_tables, extracted_tables, used_extracted, comparisons,
                    best_matches, gt_idx >>
    /\ UNCHANGED << dvars, bvars, cvars, kvars, mvars, svars >>

EmitExtras ==
    /\ rpc = "extra"
    /\ comparisons' =
           comparisons \o ExtraComparisons(main_extracted(extracted_tables), used_extracted)
    /\ rpc' = "done"
    /\ UNCHANGED << gt_tables, extracted_tables, used_extracted, best_matches, gt_idx >>
    /\ UNCHANGED << dvars, bvars, cvars, kvars, mvars, svars >>

NextReconcile == CompareGTTable \/ GTLoopEnd \/ EmitExtras



\* ------------------------------------------------------------------------
\* Inputs of the continuation detector: pages and the tables find_tables
\* reports on them
\* ------------------------------------------------------------------------
\* Strings are tuples of one-character strings; NoneCell stands for a cell
\* that table.extract() reports as None.
NoneCell == << "<None>" >>

DigitChars == << "1", "2", "3", "4", "5", "6", "7", "8", "9" >>

\* page.rect.height: odd pages are portrait, even pages landscape.
PageHeight(p) == IF p % 2 = 1 THEN 800 ELSE 600

\* A table as find_tables reports it: col_count, the top and bottom edge of
\* its bbox in percent of the page height (also exactly at the 80% and the
\* 20% line), and the number of rows table.extract() yields (0 also stands
\* for extract() raising).
TableKinds ==
    { [col_count |-> 2, top |-> 10, bottom |-> 90, nrows |-> 2],
      [col_count |-> 3, top |-> 10, bottom |-> 90, nrows |-> 2],
      [col_count |-> 2, top |-> 10, bottom |-> 80, nrows |-> 2],
      [col_count |-> 2, top |-> 20, bottom |-> 90, nrows |-> 2],
      [col_count |-> 2, top |-> 10, bottom |-> 90, nrows |-> 0] }

\* table.bbox = (x0, y0, x1, y1)
BBox(table, page_height) ==
    << 0, (table.top * page_height) \div 100, 500, (table.bottom * page_height) \div 100 >>

\* The rows table.extract() returns for the table at position i of page p:
\* a header row of texts when there are two rows, and a data row whose
\* first cell is the number "p.i" and whose last cell is None.
HeaderRow(cols) == [ c \in 1..cols |-> << "N", "r" >> ]

DataRow(cols, p, i) ==
    [ c \in 1..cols |->
        IF c = 1 THEN << DigitChars[p], ".", DigitChars[i] >>
        ELSE IF c = cols THEN NoneCell
        ELSE << "x" >> ]

TableExtract(table, p, i) ==
    IF table.nrows = 0 THEN << >>
    ELSE IF table.nrows = 1 THEN << DataRow(table.col_count, p, i) >>
    ELSE << HeaderRow(table.col_count), DataRow(table.col_count, p, i) >>

\* ------------------------------------------------------------------------
\* The continuation detector: PyMuPDFExtractor._extract_tables_detailed
\* ------------------------------------------------------------------------
\* self.CONTINUATION_BOTTOM = 0.80 and self.CONTINUATION_TOP = 0.20, in percent
CONTINUATION_BOTTOM == 80
CONTINUATION_TOP == 20

NoInfo == [cols |-> 0, y1 |-> 0, page_height |-> 0, page |-> 0]

NoResult == [count |-> -1, continuations |-> -1, spanning_count |-> -1]

\* header_row = None
NoHeader == -1

\* [cell if cell is not None else "" for cell in row] for every row
CleanRows(rows) ==
    [ r \in 1..Len(rows) |->
        [ c \in 1..Len(rows[r]) |-> IF rows[r][c] = NoneCell THEN << >> ELSE rows[r][c] ] ]

\* re.sub(r'[€$£¥,.\s]', '', value)
StripSeparators(value) ==
    SelectSeq(value, LAMBDA ch : ch \notin {"€", "$", "£", "¥", ",", ".", " "})

\* str.isdigit()
IsDigit(value) ==
    value # << >> /\ \A i \in 1..Len(value) : value[i] \in SeqToSet(DigitChars) \cup {"0"}

\* str.lstrip('-')
RECURSIVE LStripMinus(_)
LStripMinus(value) ==
    IF value # << >> /\ Head(value) = "-" THEN LStripMinus(Tail(value)) ELSE value

_is_numeric(value) ==
    IF value = << >> THEN FALSE
    ELSE LET cleaned == StripSeparators(value)
         IN  IsDigit(cleaned) \/ IsDigit(LStripMinus(cleaned))

\* 0 when the first of at least two rows holds no number, else None
_detect_header_row(data) ==
    IF data = << >> \/ Len(data) < 2 THEN NoHeader
    ELSE IF \A c \in 1..Len(data[1]) : data[1][c] # << >> => ~_is_numeric(data[1][c])
    THEN 0
    ELSE NoHeader

\* Mutant: the two thresholds taken inclusively.
_is_continuation_Inclusive(col_count, bbox, last_info, page_height) ==
    /\ col_count = last_info.cols
    /\ 100 * last_info.y1 >= last_info.page_height * CONTINUATION_BOTTOM
    /\ 100 * bbox[2] <= page_height * CONTINUATION_TOP

_is_continuation(col_count, bbox, last_info, page_height) ==
    LET same_cols == col_count = last_info.cols
        was_at_bottom == 100 * last_info.y1 > last_info.page_height * CONTINUATION_BOTTOM
        starts_at_top == 100 * bbox[2] < page_height * CONTINUATION_TOP
    IN  same_cols /\ was_at_bottom /\ starts_at_top

\* Mutant: the continuation test without "is_first_on_page".
IsContinuation_AnyPosition(i, table, last_info, page_height, detect) ==
    /\ detect
    /\ last_info # NoInfo
    /\ _is_continuation(table.col_count, BBox(table, page_height), last_info, page_height)

\* Mutant: the continuation test without the detect_continuations flag.
IsContinuation_IgnoreFlag(i, table, last_info, page_height, detect) ==
    /\ i = 1
    /\ last_info # NoInfo
    /\ _is_continuation(table.col_count, BBox(table, page_height), last_info, page_height)

\* is_continuation as lines 146-153 compute it for the table at position i
IsContinuation(i, table, last_info, page_height, detect) ==
    /\ i = 1
    /\ detect
    /\ last_info # NoInfo
    /\ _is_continuation(table.col_count, BBox(table, page_height), last_info, page_height)

\* Mutant: the update of the spanning table without its new end page.
UpdateSpanning_DataOnly(tables, cst, page, table_data, new_spanning) ==
    IF cst = 0 \/ table_data = << >> THEN tables
    ELSE [tables EXCEPT ![cst].data = new_spanning, ![cst].rows = Len(new_spanning)]

\* "Aktualisiere die spanning Tabelle": current_spanning_table (at index cst
\* of the list, 0 for None) gets continues_to_page and, when the fragment
\* has rows, the collected data.
UpdateSpanning(tables, cst, page, table_data, new_spanning) ==
    IF cst = 0 THEN tables
    ELSE IF table_data # << >>
    THEN [tables EXCEPT ![cst].continues_to_page = page,
                        ![cst].data = new_spanning,
                        ![cst].rows = Len(new_spanning)]
    ELSE [tables EXCEPT ![cst].continues_to_page = page]

InitDetect ==
    /\ detect_continuations \in BOOLEAN
    /\ extract_data \in BOOLEAN
    /\ doc_pages = << >>
    /\ page_number = 0
    /\ page_tables = << >>
    /\ idx = 1
    /\ d_extracted_tables = << >>
    /\ legacy_data = << >>
    /\ logical_table_id = 0
    /\ total_continuations = 0
    /\ last_table_info = NoInfo
    /\ current_spanning_table = 0
    /\ spanning_data = << >>
    /\ d_result = NoResult
    /\ dpc = "page"

FragmentsSeen == SeqSum([ p \in 1..Len(doc_pages) |-> Len(doc_pages[p]) ])

\* The for-loop reaches the next page: page.find_tables(...) reports its
\* tables (none also when it raises).
FindTables ==
    /\ dpc = "page"
    /\ page_number < MaxDocPages
    /\ \E tables \in SeqsUpTo(TableKinds, 0, MaxFragments - FragmentsSeen) :
          /\ page_tables' = tables
          /\ doc_pages' = Append(doc_pages, tables)
    /\ page_number' = page_number + 1
    /\ idx' = 1
    /\ dpc' = "tables"
    /\ UNCHANGED << detect_continuations, extract_data, d_extracted_tables,
                    legacy_data, logical_table_id, total_continuations,
                    last_table_info, current_spanning_table, spanning_data, d_result >>
    /\ UNCHANGED << rvars, bvars, cvars, kvars, mvars, svars >>

\* The body of "for idx, table in enumerate(page_tables)".
ProcessTable ==
    /\ dpc = "tables"
    /\ idx <= Len(page_tables)
    /\ LET table == page_tables[idx]
           page_height == PageHeight(page_number)
           bbox == BBox(table, page_height)
           is_continuation ==
               IsContinuation(idx, table, last_table_info, page_height, detect_continuations)
           table_data ==
               IF extract_data THEN CleanRows(TableExtract(table, page_number, idx)) ELSE << >>
           cst == current_spanning_table
           legacy == [page |-> page_number, rows |-> Len(table_data),
                      cols |-> table.col_count, is_continuation |-> is_continuation]
       IN  /\ IF is_continuation
              THEN LET new_spanning ==
                           IF cst # 0 /\ table_data # << >>
                           THEN spanning_data \o table_data
                           ELSE spanning_data
                       updated ==
                           UpdateSpanning(d_extracted_tables, cst, page_number,
                                          table_data, new_spanning)
                       cont_table ==
                           [ table_id |-> IF cst # 0 THEN d_extracted_tables[cst].table_id
                                          ELSE logical_table_id,
                             page |-> page_number,
                             rows |-> Len(table_data),
                             cols |-> table.col_count,
                             bbox |-> bbox,
                             is_continuation |-> TRUE,
                             continues_to_page |-> 0,
                             data |-> table_data,
                             header_row |-> NoHeader ]
                   IN  /\ total_continuations' = total_continuations + 1
                       /\ spanning_data' = new_spanning
                       /\ d_extracted_tables' = Append(updated, cont_table)
                       /\ UNCHANGED << logical_table_id, current_spanning_table >>
              ELSE LET new_table ==
                           [ table_id |-> logical_table_id + 1,
                             page |-> page_number,
                             rows |-> Len(table_data),
                             cols |-> table.col_count,
                             bbox |-> bbox,
                             is_continuation |-> FALSE,
                             continues_to_page |-> 0,
                             data |-> table_data,
                             header_row |-> IF table_data # << >>
                                            THEN _detect_header_row(table_data)
                                            ELSE NoHeader ]
                   IN  /\ logical_table_id' = logical_table_id + 1
                       /\ spanning_data' = table_data
                       /\ d_extracted_tables' = Append(d_extracted_tables, new_table)
                       /\ current_spanning_table' = Len(d_extracted_tables) + 1
                       /\ UNCHANGED total_continuations
           /\ legacy_data' = Append(legacy_data, legacy)
           /\ last_table_info' = [cols |-> table.col_count, y1 |-> bbox[4],
                                  page_height |-> page_height, page |-> page_number]
    /\ idx' = idx + 1
    /\ UNCHANGED << detect_continuations, extract_data, doc_pages, page_number,
                    page_tables, d_result, dpc >>
    /\ UNCHANGED << rvars, bvars, cvars, kvars, mvars, svars >>

\* Mutant: the end of a page without the reset of the tracking state.
EndPage_NoReset ==
    /\ dpc = "tables"
    /\ idx > Len(page_tables)
    /\ dpc' = "page"
    /\ UNCHANGED << detect_continuations, extract_data, doc_pages, page_number,
                    page_tables, idx, d_extracted_tables, legacy_data,
                    logical_table_id, total_continuations, d_result,
                    last_table_info, current_spanning_table, spanning_data >>
    /\ UNCHANGED << rvars, bvars, cvars, kvars, mvars, svars >>

\* After the tables of the page: "if not page_tables" resets the tracking.
EndPage ==
    /\ dpc = "tables"
    /\ idx > Len(page_tables)
    /\ IF page_tables = << >>
       THEN /\ last_table_info' = NoInfo
            /\ current_spanning_table' = 0
            /\ spanning_data' = << >>
       ELSE UNCHANGED << last_table_info, current_spanning_table, spanning_data >>
    /\ dpc' = "page"
    /\ UNCHANGED << detect_continuations, extract_data, doc_pages, page_number,
                    page_tables, idx, d_extracted_tables, legacy_data,
                    logical_table_id, total_continuations, d_result >>
    /\ UNCHANGED << rvars, bvars, cvars, kvars, mvars, svars >>

\* The document has no further page: count the main tables and return.
ReturnTables ==
    /\ dpc = "page"
    /\ LET main_tables == main_extracted(d_extracted_tables)
       IN  d_result' =
               [ count |-> Len(main_tables),
                 continuations |-> total_continuations,
                 spanning_count |-> Len(SelectSeq(main_tables, is_spanning)) ]
    /\ dpc' = "done"
    /\ UNCHANGED << detect_continuations, extract_data, doc_pages, page_number,
                    page_tables, idx, d_extracted_tables, legacy_data,
                    logical_table_id, total_continuations, last_table_info,
                    current_spanning_table, spanning_data >>
    /\ UNCHANGED << rvars, bvars, cvars, kvars, mvars, svars >>

NextDetect == FindTables \/ ProcessTable \/ EndPage \/ ReturnTables

\* Python's Optional[x]: << >> for None, << x >> for a value.
None == << >>

Some(x) == << x >>

\* ------------------------------------------------------------------------
\* The cell comparator (benchmark/csv_benchmark_runner.py): strings are
\* tuples of characters, a float is an integer count of 1/FloatScale.
\* ------------------------------------------------------------------------
FloatScale == 10000

Digits == << "0", "1", "2", "3", "4", "5", "6", "7", "8", "9" >>

IsDigitChar(ch) == \E d \in 1..Len(Digits) : Digits[d] = ch

DigitVal(ch) == (CHOOSE d \in 1..Len(Digits) : Digits[d] = ch) - 1

\* str.strip() and the whitespace of str.split(): the blank is the only
\* whitespace character of the model's alphabet.
RECURSIVE LStrip(_)
LStrip(s) == IF s # << >> /\ Head(s) = " " THEN LStrip(Tail(s)) ELSE s

RECURSIVE RStrip(_)
RStrip(s) ==
    IF s # << >> /\ s[Len(s)] = " " THEN RStrip(SubSeq(s, 1, Len(s) - 1)) ELSE s

Strip(s) == RStrip(LStrip(s))

\* " ".join(s.split()) for a stripped s: every run of blanks becomes one.
RECURSIVE Squeeze(_)
Squeeze(s) ==
    IF Len(s) <= 1 THEN s
    ELSE IF s[1] = " " /\ s[2] = " " THEN Squeeze(Tail(s))
    ELSE << s[1] >> \o Squeeze(Tail(s))

JoinSplit(s) == Squeeze(Strip(s))

\* str.lower()
LowerChar(ch) == IF ch = "A" THEN "a" ELSE IF ch = "B" THEN "b" ELSE ch

Lower(s) == [ i \in 1..Len(s) |-> LowerChar(s[i]) ]

\* Mutant: the normalization without the final strip.
_normalize_NoTrim(value, normalize_ws, case_ins) ==
    LET r1 == IF normalize_ws THEN JoinSplit(value) ELSE value
    IN  IF case_ins THEN Lower(r1) ELSE r1

\* CSVBenchmarkRunner._normalize
_normalize(value, normalize_ws, case_ins) ==
    LET r1 == IF normalize_ws THEN JoinSplit(value) ELSE value
        r2 == IF case_ins THEN Lower(r1) ELSE r1
    IN  Strip(r2)

\* str.replace(old, new) for single characters; new = << >> removes.
Replace(s, old, new) ==
    LET RECURSIVE R(_)
        R(t) == IF t = << >> THEN << >>
                ELSE (IF Head(t) = old THEN new ELSE << Head(t) >>) \o R(Tail(t))
    IN  R(s)

Contains(s, ch) == \E i \in 1..Len(s) : s[i] = ch

\* str.rfind(ch): the last position (1-based), 0 when absent.
RFind(s, ch) ==
    IF Contains(s, ch) THEN CHOOSE i \in 1..Len(s) :
                                /\ s[i] = ch
                                /\ \A j \in (i + 1)..Len(s) : s[j] # ch
    ELSE 0

\* The value of a string of digits.
RECURSIVE IntOf(_)
IntOf(ds) ==
    IF ds = << >> THEN 0 ELSE 10 * IntOf(SubSeq(ds, 1, Len(ds) - 1)) + DigitVal(ds[Len(ds)])

RECURSIVE Pow10(_)
Pow10(n) == IF n = 0 THEN 1 ELSE 10 * Pow10(n - 1)

\* float(s) for a string of the model's alphabet: an optional sign, digits
\* with at most one "." among them and at least one digit; anything else
\* raises ValueError (None here).
Float(s) ==
    LET signed == s # << >> /\ Head(s) \in { "-", "+" }
        body == IF signed THEN Tail(s) ELSE s
        dot == RFind(body, ".")
        whole == IF dot = 0 THEN body ELSE SubSeq(body, 1, dot - 1)
        frac == IF dot = 0 THEN << >> ELSE SubSeq(body, dot + 1, Len(body))
        wellFormed ==
            /\ \A i \in 1..Len(whole) : IsDigitChar(whole[i])
            /\ \A i \in 1..Len(frac) : IsDigitChar(frac[i])
            /\ Len(whole) + Len(frac) >= 1
        magnitude ==
            IntOf(whole) * FloatScale + (IntOf(frac) * FloatScale) \div Pow10(Len(frac))
    IN  IF ~wellFormed THEN None
        ELSE Some(IF signed /\ Head(s) = "-" THEN 0 - magnitude ELSE magnitude)

\* The currency symbols of the pattern; "$" stands for all four of them.
CurrencyChars == { "$" }

\* re.sub(r'[currency\s]', '', value)
StripCurrency(value) ==
    SelectSeq(value, LAMBDA ch : ch \notin CurrencyChars /\ ch # " ")

\* Mutant: number parsing that always takes "," for the decimal separator
\* and "." for a thousands separator.
_parse_number_CommaDecimal(value) ==
    LET cleaned == StripCurrency(value)
        c1 == IF Contains(cleaned, ",")
              THEN Replace(Replace(cleaned, ".", << >>), ",", << "." >>)
              ELSE cleaned
    IN  IF value = << >> THEN None ELSE Float(c1)

\* CSVBenchmarkRunner._parse_number
_parse_number(value) ==
    LET cleaned == StripCurrency(value)
        c1 == IF Contains(cleaned, ",") /\ Contains(cleaned, ".")
              THEN IF RFind(cleaned, ",") > RFind(cleaned, ".")
                   THEN Replace(Replace(cleaned, ".", << >>), ",", << "." >>)
                   ELSE Replace(cleaned, ",", << >>)
              ELSE IF Contains(cleaned, ",")
              THEN Replace(cleaned, ",", << "." >>)
              ELSE cleaned
    IN  IF value = << >> THEN None ELSE Float(c1)

Abs(x) == IF x < 0 THEN 0 - x ELSE x

\* Mutant: emptiness without the trim, only None and the empty string.
IsEmptyCell_NoTrim(value) == value = NoneCell \/ value = << >>

\* pd.isna(value) or str(value).strip() == ""
IsEmptyCell(value) == value = NoneCell \/ Strip(value) = << >>

CellResult(match, match_type) == [match |-> match, match_type |-> match_type]

RECURSIVE GCD(_, _)
GCD(a, b) == IF b = 0 THEN a ELSE GCD(b, a % b)

\* The numeric step of _compare_cells: both values parse and lie within
\* the absolute or the relative tolerance.  |e - a| / |e| <= t / FloatScale
\* is computed as |e - a| <= floor(t * |e| / FloatScale), the fraction
\* reduced first.
NumericMatch(exp_str, act_str, tolerance) ==
    LET exp_num == _parse_number(exp_str)
        act_num == _parse_number(act_str)
        diff == Abs(exp_num[1] - act_num[1])
        g == GCD(tolerance, FloatScale)
    IN  /\ exp_num # None
        /\ act_num # None
        /\ \/ diff <= tolerance
           \/ /\ exp_num[1] # 0
              /\ diff <= ((tolerance \div g) * Abs(exp_num[1])) \div (FloatScale \div g)

\* Mutant: the comparison that tests normalized equality before exact
\* equality.
_compare_cells_NormalizedFirst(expected, actual, normalize_ws, case_ins, tolerance) ==
    IF IsEmptyCell(expected) /\ IsEmptyCell(actual) THEN CellResult(TRUE, "empty")
    ELSE IF IsEmptyCell(expected) # IsEmptyCell(actual) THEN CellResult(FALSE, "mismatch")
    ELSE IF _normalize(expected, normalize_ws, case_ins)
              = _normalize(actual, normalize_ws, case_ins)
    THEN CellResult(TRUE, "normalized")
    ELSE IF NumericMatch(expected, actual, tolerance)
    THEN CellResult(TRUE, "numeric")
    ELSE CellResult(FALSE, "mismatch")

\* Mutant: the comparison with the absolute tolerance only.
_compare_cells_AbsoluteOnly(expected, actual, normalize_ws, case_ins, tolerance) ==
    LET exp_num == _parse_number(expected)
        act_num == _parse_number(actual)
    IN  IF IsEmptyCell(expected) /\ IsEmptyCell(actual) THEN CellResult(TRUE, "empty")
        ELSE IF IsEmptyCell(expected) # IsEmptyCell(actual) THEN CellResult(FALSE, "mismatch")
        ELSE IF expected = actual THEN CellResult(TRUE, "exact")
        ELSE IF _normalize(expected, normalize_ws, case_ins)
                  = _normalize(actual, normalize_ws, case_ins)
        THEN CellResult(TRUE, "normalized")
        ELSE IF exp_num # None /\ act_num # None
                /\ Abs(exp_num[1] - act_num[1]) <= tolerance
        THEN CellResult(TRUE, "numeric")
        ELSE CellResult(FALSE, "mismatch")

\* CSVBenchmarkRunner._compare_cells
_compare_cells(expected, actual, normalize_ws, case_ins, tolerance) ==
    LET exp_empty == IsEmptyCell(expected)
        act_empty == IsEmptyCell(actual)
    IN  IF exp_empty /\ act_empty THEN CellResult(TRUE, "empty")
        ELSE IF exp_empty # act_empty THEN CellResult(FALSE, "mismatch")
        ELSE IF expected = actual THEN CellResult(TRUE, "exact")
        ELSE IF _normalize(expected, normalize_ws, case_ins)
                  = _normalize(actual, normalize_ws, case_ins)
        THEN CellResult(TRUE, "normalized")
        ELSE IF NumericMatch(expected, actual, tolerance)
        THEN CellResult(TRUE, "numeric")
        ELSE CellResult(FALSE, "mismatch")

\* ------------------------------------------------------------------------
\* The table comparison: CSVBenchmarkRunner._compare_tables after the
\* conversion to DataFrames.  A DataFrame is its column names and its rows.
\* ------------------------------------------------------------------------
DataFrame(columns, rows) == [columns |-> columns, rows |-> rows]

Min(a, b) == IF a <= b THEN a ELSE b

\* df.iloc[row, col], 0-based as in the code
ILoc(df, row, col) == df.rows[row + 1][col + 1]

\* The CellComparisonResult of the k-th cell of the compared block (row by
\* row over rows_to_compare x cols_to_compare).
CellComparison(gt, ext, k, cols_to_compare, normalize_ws, case_ins, tolerance) ==
    LET row == (k - 1) \div cols_to_compare
        col == (k - 1) % cols_to_compare
        r == _compare_cells(ILoc(gt, row, col), ILoc(ext, row, col),
                            normalize_ws, case_ins, tolerance)
    IN  [row |-> row, col |-> col, expected |-> ILoc(gt, row, col),
         actual |-> ILoc(ext, row, col), match |-> r.match,
         match_type |-> r.match_type]

CountType(cells, match_type) ==
    Len(SelectSeq(cells, LAMBDA c : c.match /\ c.match_type = match_type))

\* Mutant: total_cells taken from the compared block instead of the
\* ground truth, and no mismatch counted for the cells outside it.
CompareDataFrames_Intersection(gt, ext, header, normalize_ws, case_ins, tolerance) ==
    LET rows_to_compare == Min(Len(gt.rows), Len(ext.rows))
        cols_to_compare == Min(Len(gt.columns), Len(ext.columns))
        cells == [ k \in 1..(rows_to_compare * cols_to_compare) |->
                     CellComparison(gt, ext, k, cols_to_compare,
                                    normalize_ws, case_ins, tolerance) ]
    IN  [expected_rows |-> Len(gt.rows), expected_cols |-> Len(gt.columns),
         actual_rows |-> Len(ext.rows), actual_cols |-> Len(ext.columns),
         header_match |-> FALSE,
         total_cells |-> rows_to_compare * cols_to_compare,
         matched_cells |-> Len(SelectSeq(cells, LAMBDA c : c.match)),
         exact_matches |-> CountType(cells, "exact"),
         normalized_matches |-> CountType(cells, "normalized"),
         numeric_matches |-> CountType(cells, "numeric"),
         empty_matches |-> CountType(cells, "empty"),
         mismatches |-> Len(SelectSeq(cells, LAMBDA c : ~c.match)),
         cell_comparisons |-> cells]

\* Mutant: the comparison that does not count the ground-truth cells
\* outside the compared block.
CompareDataFrames_NoExtraCells(gt, ext, header, normalize_ws, case_ins, tolerance) ==
    LET r == CompareDataFrames_Intersection(gt, ext, header, normalize_ws,
                                            case_ins, tolerance)
    IN  [r EXCEPT !.total_cells = Len(gt.rows) * Len(gt.columns)]

\* _compare_tables from "result = TableComparisonResult(" to "return result"
CompareDataFrames(gt, ext, header, normalize_ws, case_ins, tolerance) ==
    LET gt_rows == Len(gt.rows)
        gt_cols == Len(gt.columns)
        rows_to_compare == Min(gt_rows, Len(ext.rows))
        cols_to_compare == Min(gt_cols, Len(ext.columns))
        cells == [ k \in 1..(rows_to_compare * cols_to_compare) |->
                     CellComparison(gt, ext, k, cols_to_compare,
                                    normalize_ws, case_ins, tolerance) ]
        extra_cells ==
            IF gt_rows > rows_to_compare \/ gt_cols > cols_to_compare
            THEN gt_rows * gt_cols - rows_to_compare * cols_to_compare
            ELSE 0
        gt_headers == [ c \in 1..gt_cols |-> _normalize(gt.columns[c], normalize_ws, case_ins) ]
        ext_headers == [ c \in 1..Len(ext.columns) |->
                           _normalize(ext.columns[c], normalize_ws, case_ins) ]
    IN  [expected_rows |-> gt_rows, expected_cols |-> gt_cols,
         actual_rows |-> Len(ext.rows), actual_cols |-> Len(ext.columns),
         header_match |-> /\ header
                          /\ gt_cols > 0
                          /\ Len(ext.columns) > 0
                          /\ gt_headers = ext_headers,
         total_cells |-> gt_rows * gt_cols,
         matched_cells |-> Len(SelectSeq(cells, LAMBDA c : c.match)),
         exact_matches |-> CountType(cells, "exact"),
         normalized_matches |-> CountType(cells, "normalized"),
         numeric_matches |-> CountType(cells, "numeric"),
         empty_matches |-> CountType(cells, "empty"),
         mismatches |-> Len(SelectSeq(cells, LAMBDA c : ~c.match)) + extra_cells,
         cell_comparisons |-> cells]

\* ------------------------------------------------------------------------
\* Inputs of the comparator
\* ------------------------------------------------------------------------
MaxRows == 3
MaxCols == 2
MaxChars == 4

\* Cell values for _compare_cells: None, blanks, texts that differ in case
\* and whitespace, and numbers in several notations.
CellValues ==
    { NoneCell, << >>, << " " >>,
      << "a" >>, << "A" >>, << " ", "a" >>, << "a", " ", "b" >>,
      << "a", " ", " ", "b" >>,
      << "0" >>, << "5" >>, << "5", ".", "0" >>, << "5", ",", "0" >>, << "$", "5" >>,
      << "1", "0", "0", "0" >>,
      << "1", "0", "0", "0", ".", "0", "0", "0", "5" >>,
      << "1", "0", "0", "0", ".", "5" >>,
      << "1", "0", "0", "2" >>,
      << "1", ".", "0", "0", "0" >>,
      << "0", ".", "0", "0", "0", "5" >> }

\* numeric_tolerance: float = 0.001
DefaultTolerance == FloatScale \div 1000

\* numeric_tolerance: 0 and the default
Tolerances == { 0, DefaultTolerance }

NumberChars == { "1", "2", ",", ".", " ", "$", "-" }

\* Arguments of _parse_number: every string of up to MaxChars characters,
\* and the two notations of 1234.56.
ParseInputs ==
    SeqsUpTo(NumberChars, 0, MaxChars)
    \cup { << "1", ".", "2", "3", "4", ",", "5", "6" >>,
           << "1", ",", "2", "3", "4", ".", "5", "6" >> }

\* The ground-truth DataFrame of r rows and c columns: column "c<j>", cell
\* "<i>.<j>".
ColumnName(j) == << "c", Digits[j + 1] >>

GTCell(i, j) == << Digits[i + 1], ".", Digits[j + 1] >>

GTFrame(r, c) ==
    DataFrame([ j \in 1..c |-> ColumnName(j) ],
              [ i \in 1..r |-> [ j \in 1..c |-> GTCell(i, j) ] ])

\* An extracted DataFrame: each cell is the ground-truth cell of its
\* position or some other text, the header likewise.
ExtFrame(r, c, same, header_same) ==
    DataFrame([ j \in 1..c |-> IF header_same THEN ColumnName(j) ELSE << "x" >> ],
              [ i \in 1..r |->
                  [ j \in 1..c |-> IF same[i][j] THEN GTCell(i, j) ELSE << "x" >> ] ])

GTFrames == { GTFrame(r, c) : r \in 0..MaxRows, c \in 1..MaxCols }

ExtFrames ==
    UNION { { ExtFrame(r, c, same, h) :
                same \in [1..r -> [1..c -> BOOLEAN]], h \in BOOLEAN }
            : r \in 0..MaxRows, c \in 1..MaxCols }

\* Pairs of an expected and an extracted cell for every outcome of
\* _compare_cells: normalized by whitespace, numeric, empty, mismatch,
\* normalized by case, exact, and one side missing.
MixedPairs ==
    << << << "a", " ", "b" >>, << "a", " ", " ", "b" >> >>,
       << << "5" >>, << "5", ".", "0" >> >>,
       << << >>, << " " >> >>,
       << << "a" >>, << "x" >> >>,
       << << "a" >>, << "A" >> >>,
       << << "5" >>, << "5" >> >>,
       << NoneCell, << "5" >> >> >>

\* The cell at row i, column j of a mixed frame: side 1 the ground truth,
\* side 2 the extracted table.
MixedCell(i, j, side) ==
    MixedPairs[(((i - 1) * MaxCols + (j - 1)) % Len(MixedPairs)) + 1][side]

MixedFrame(r, c, side) ==
    DataFrame([ j \in 1..c |-> ColumnName(j) ],
              [ i \in 1..r |-> [ j \in 1..c |-> MixedCell(i, j, side) ] ])

MixedGTFrames == { MixedFrame(r, c, 1) : r \in 1..MaxRows, c \in 1..MaxCols }

MixedExtFrames == { MixedFrame(r, c, 2) : r \in 1..MaxRows, c \in 1..MaxCols }

\* ------------------------------------------------------------------------
\* Inputs of the benchmark runs
\* ------------------------------------------------------------------------
FileNames == { "a.pdf", "b.pdf" }

\* self.extractors: the adapters, in order, each with the name it reports.
\* Two adapters may report the same name: PyMuPDFExtractor's name leaves
\* out its extract_data and deduplicate_images arguments.
ExtractorLists ==
    { << "pymupdf", "pdfplumber" >>, << "pymupdf", "pymupdf" >> }

Injective(s) == \A i, j \in 1..Len(s) : s[i] = s[j] => i = j

\* The files argument: file names, each at most once.
FileLists ==
    { s \in SeqsUpTo(FileNames, 0, Cardinality(FileNames)) : Injective(s) }

\* DocumentGroundTruth: a document with a count only, and one with details.
DocumentGroundTruths ==
    { [file_name |-> n, table_count |-> 2, tables |-> << >>, image_count |-> 0]
        : n \in FileNames }
    \cup
    { [file_name |-> n, table_count |-> 1, tables |-> MkGT(<< <<1, 2>> >>),
       image_count |-> 1] : n \in FileNames }

DocNames(m) == [ i \in 1..Len(m) |-> m[i].file_name ]

\* GroundTruthManifest.documents: add() keeps one document per file name.
GroundTruthManifests ==
    { m \in SeqsUpTo(DocumentGroundTruths, 0, Cardinality(FileNames)) :
        Injective(DocNames(m)) }

\* CSVGroundTruth: table_id, file_name, rows, cols.
CSVTableIds == { 1, 2 }

\* CSVGroundTruth: csv_data is the CSV text of GTFrame(rows, cols);
\* _dataframe is None in an entry made by from_dict or from_csv_file and
\* holds the frame in an entry made by from_dataframe.
CSVGroundTruths(n, ids, loaded) ==
    LET present == SelectSeq(<< 1, 2 >>, LAMBDA i : i \in ids)
    IN  [ k \in 1..Len(present) |->
            [table_id |-> present[k], file_name |-> n, rows |-> 2, cols |-> 2,
             _dataframe |-> IF loaded THEN Some(GTFrame(2, 2)) ELSE None] ]

\* CSVGroundTruthManifest.tables: any tables of a.pdf, then at most the
\* first table of b.pdf; a manifest read by load() or one built from
\* DataFrames.
CSVGroundTruthManifests ==
    { CSVGroundTruths("a.pdf", A, loaded) \o CSVGroundTruths("b.pdf", B, loaded) :
        A \in SUBSET CSVTableIds, B \in SUBSET { 1 }, loaded \in BOOLEAN }

\* The successful results: no table, one table on page 1 and an image, one
\* table spanning pages 1-2.
ExtractedChoices ==
    { << MkExtracted(<< >>), 0 >>,
      << MkExtracted(<< <<1, FALSE>> >>), 1 >>,
      << MkExtracted(<< <<1, FALSE>>, <<2, TRUE>> >>), 0 >> }

\* What extractor.extract does on one call: it raises, or it returns an
\* ExtractionResult (error None or a message; tables; image_count).
ExtractionResult(raises, error, tables, image_count) ==
    [raises |-> raises, error |-> error, tables |-> tables,
     image_count |-> image_count, execution_time_ms |-> 3]

Extractions ==
    { ExtractionResult(TRUE, Some("adapter raised"), << >>, 0),
      ExtractionResult(FALSE, Some("adapter error"), << >>, 0) }
    \cup
    { ExtractionResult(FALSE, None, c[1], c[2]) : c \in ExtractedChoices }

\* ExtractionResult.success
success(e) == e.error = None

\* ExtractionResult.table_count, as the adapters set it: the logical tables.
table_count(e) == Len(main_extracted(e.tables))

\* ExtractionResult.spanning_table_count
spanning_table_count(e) == Len(SelectSeq(e.tables, is_spanning))

\* DocumentGroundTruth.spanning_table_count
gt_spanning_table_count(g) ==
    Len(SelectSeq(g.tables, LAMBDA t : t.end_page > t.start_page))

\* How the processing of one ground-truth table of the CSV run goes: the
\* table is compared ("ok"), is not found or has no data ("notfound"), its
\* DataFrame conversion fails inside _compare_tables ("converr"), or an
\* exception escapes to the except clause of run ("raise").
TableOutcomes == { "ok", "notfound", "converr", "raise" }

Outcome(e) == IF e.raises THEN "raised" ELSE IF success(e) THEN "ok" ELSE "error"

\* ------------------------------------------------------------------------
\* BenchmarkRunner.run (benchmark/runner.py)
\* ------------------------------------------------------------------------
\* ToolMetrics(tool_name=...)
ToolMetrics ==
    [total_files |-> 0, successful |-> 0, total_time_ms |-> 0,
     table_exact |-> 0, table_over |-> 0, table_under |-> 0,
     table_page_exact |-> 0, table_page_partial |-> 0,
     spanning_detected |-> 0, spanning_total_gt |-> 0, image_exact |-> 0]

\* GroundTruthManifest.get: the first document of that name, or None.
manifest_get(m, file_name) ==
    LET hits == SelectSeq(m, LAMBDA d : d.file_name = file_name)
    IN  IF hits = << >> THEN None ELSE Some(hits[1])

\* _compare_table_pages as run calls it: the ground-truth loop from turn k
\* on, then the loop over the tables left unused.
RECURSIVE CompareFrom(_, _, _, _)
CompareFrom(gts, k, main, used) ==
    IF k > Len(gts)
    THEN ExtraComparisons(main, used)
    ELSE LET m == FindMatch(main, GTRange(gts[k]), used)
             used2 == IF m.match # 0
                      THEN used \cup { main[m.match].table_id }
                      ELSE used
         IN  << GTComparison(gts[k], main, m) >> \o CompareFrom(gts, k + 1, main, used2)

_compare_table_pages(gts, ext) == CompareFrom(gts, 1, main_extracted(ext), {})

CountStatus(comps, status) ==
    Len(SelectSeq(comps, LAMBDA c : c.match_status = status))

\* The comparisons run stores in the table report: none without ground
\* truth or without ground-truth details.
ReportComparisons(gt, e) ==
    IF gt # None /\ gt[1].tables # << >>
    THEN _compare_table_pages(gt[1].tables, e.tables)
    ELSE << >>

\* The counters of one tool after the loop body for one (file, extractor).
MetricsAfter(m, gt, e) ==
    LET m1 == [m EXCEPT !.total_files = @ + 1]
        m2 == [m1 EXCEPT !.successful = @ + 1,
                         !.total_time_ms = @ + e.execution_time_ms]
        g == gt[1]
        table_diff == table_count(e) - g.table_count
        image_diff == e.image_count - g.image_count
        comps == ReportComparisons(gt, e)
    IN  IF e.raises \/ ~success(e) THEN m1
        ELSE IF gt = None THEN m2
        ELSE [m2 EXCEPT
                !.table_exact = IF table_diff = 0 THEN @ + 1 ELSE @,
                !.table_over = IF table_diff > 0 THEN @ + 1 ELSE @,
                !.table_under = IF table_diff < 0 THEN @ + 1 ELSE @,
                !.image_exact = IF image_diff = 0 THEN @ + 1 ELSE @,
                !.spanning_total_gt = @ + gt_spanning_table_count(g),
                !.spanning_detected = @ + spanning_table_count(e),
                !.table_page_exact = @ + CountStatus(comps, "exact"),
                !.table_page_partial = @ + CountStatus(comps, "partial")]

\* The detail dict of one successful extraction.
Detail(filename, tool, gt, e) ==
    LET table_diff == table_count(e) - gt[1].table_count
    IN  [file |-> filename,
         tool |-> tool,
         tables |-> table_count(e),
         spanning |-> spanning_table_count(e),
         images |-> e.image_count,
         gt_tables |-> IF gt # None THEN Some(gt[1].table_count) ELSE None,
         gt_images |-> IF gt # None THEN Some(gt[1].image_count) ELSE None,
         table_diff |-> IF gt # None THEN Some(table_diff) ELSE None,
         image_diff |->
             IF gt # None THEN Some(e.image_count - gt[1].image_count) ELSE None,
         status |-> IF gt = None THEN "o"
                    ELSE IF table_diff = 0 THEN "exact"
                    ELSE IF table_diff > 0 THEN "over" ELSE "under"]

\* The DetailedTableReport of one successful extraction.
DetailedTableReport(filename, tool, gt, e) ==
    [file_name |-> filename,
     tool_name |-> tool,
     gt_table_count |-> IF gt # None THEN gt[1].table_count ELSE 0,
     gt_tables |-> IF gt # None THEN gt[1].tables ELSE << >>,
     extracted_count |-> table_count(e),
     extracted_tables |-> e.tables,
     comparisons |-> ReportComparisons(gt, e)]

\* The position after the current (file, extractor) pair.
NextFileIdx == IF ext_idx < Len(extractors) THEN file_idx ELSE file_idx + 1

NextExtIdx == IF ext_idx < Len(extractors) THEN ext_idx + 1 ELSE 1

ExtractCall(filename, tool, e) ==
    [file |-> filename, tool |-> tool, outcome |-> Outcome(e)]

\* The body of the loop over extractors for one file.  The call of
\* extractor.extract is not inside a try: if it raises, the exception
\* leaves run and the result is never returned.
RunPair ==
    /\ runner = "pages"
    /\ run_pc = "running"
    /\ file_idx <= Len(files)
    /\ \E e \in Extractions :
         LET filename == files[file_idx]
             tool == extractors[ext_idx]
             gt == manifest_get(manifest, filename)
         IN  /\ tool_metrics' =
                   [tool_metrics EXCEPT ![tool] = MetricsAfter(@, gt, e)]
             /\ extract_calls' = Append(extract_calls, ExtractCall(filename, tool, e))
             /\ IF e.raises
                THEN /\ run_pc' = "raised"
                     /\ UNCHANGED << file_idx, ext_idx, detailed_results, table_reports >>
                ELSE /\ run_pc' = run_pc
                     /\ file_idx' = NextFileIdx
                     /\ ext_idx' = NextExtIdx
                     /\ IF success(e)
                        THEN /\ detailed_results' =
                                   Append(detailed_results, Detail(filename, tool, gt, e))
                             /\ table_reports' =
                                   Append(table_reports,
                                          DetailedTableReport(filename, tool, gt, e))
                        ELSE UNCHANGED << detailed_results, table_reports >>
    /\ UNCHANGED << runner, files, manifest, extractors, table_comparisons >>
    /\ UNCHANGED << rvars, dvars, cvars, kvars, mvars, svars >>

\* ------------------------------------------------------------------------
\* CSVBenchmarkRunner.run (benchmark/csv_benchmark_runner.py)
\* ------------------------------------------------------------------------
\* CSVToolMetrics(tool_name=...)
CSVToolMetrics ==
    [total_tables |-> 0, successful_extractions |-> 0, structure_matches |-> 0,
     total_cells |-> 0, total_matched |-> 0, total_exact |-> 0,
     total_mismatches |-> 0, header_matches |-> 0, total_time_ms |-> 0]

\* CSVGroundTruthManifest.get_all_for_file
get_all_for_file(m, file_name) ==
    SelectSeq(m, LAMBDA t : t.file_name = file_name)

\* The property CSVGroundTruth.dataframe, as the entry it leaves behind:
\* the first read of an entry with csv_data parses the text and stores the
\* frame in _dataframe.
dataframe(gt) ==
    IF gt._dataframe = None /\ gt.rows * gt.cols > 0
    THEN [gt EXCEPT !._dataframe = Some(GTFrame(gt.rows, gt.cols))]
    ELSE gt

\* TableComparisonResult
TableComparisonResult(gt, tool, filename, actual_rows, actual_cols, error) ==
    [table_id |-> gt.table_id, tool_name |-> tool, file_name |-> filename,
     expected_rows |-> gt.rows, expected_cols |-> gt.cols,
     actual_rows |-> actual_rows, actual_cols |-> actual_cols, error |-> error,
     total_cells |-> 0, matched_cells |-> 0, exact_matches |-> 0,
     mismatches |-> 0, header_match |-> FALSE]

\* TableComparisonResult.structure_match
structure_match(c) ==
    c.expected_rows = c.actual_rows /\ c.expected_cols = c.actual_cols

\* The record of a ground-truth table whose extraction failed.
FailedComparison(gt, tool, filename, message) ==
    TableComparisonResult(gt, tool, filename, 0, 0, Some(message))

FailedComparisons(gts, tool, filename, message) ==
    [ k \in 1..Len(gts) |-> FailedComparison(gts[k], tool, filename, message) ]

\* The counts _compare_tables computes when the extracted table's frame
\* equals the ground truth's: total_cells = len(gt_df) * len(gt_df.columns),
\* every cell an exact match, the column names equal.  This is the value of
\* CompareDataFrames(df, df, ...) for the frames of the runs.
SameFrame(df) ==
    [actual_rows |-> Len(df.rows), actual_cols |-> Len(df.columns),
     total_cells |-> Len(df.rows) * Len(df.columns),
     matched_cells |-> Len(df.rows) * Len(df.columns),
     exact_matches |-> Len(df.rows) * Len(df.columns),
     mismatches |-> 0, header_match |-> TRUE]

\* The result record of _compare_tables, filled from the counts r of the
\* comparison of the two frames.
ComparedResult(gt, tool, filename, r) ==
    [TableComparisonResult(gt, tool, filename, r.actual_rows, r.actual_cols, None)
        EXCEPT !.total_cells = r.total_cells,
               !.matched_cells = r.matched_cells,
               !.exact_matches = r.exact_matches,
               !.mismatches = r.mismatches,
               !.header_match = r.header_match]

\* The result of _compare_tables: an error record when the DataFrame
\* conversion of the extracted table fails (gt.dataframe is read before
\* it), else the comparison of the two tables (here of an extracted table
\* that equals the ground truth).
_compare_tables(gt, tool, filename, outcome) ==
    IF outcome = "converr"
    THEN FailedComparison(gt, tool, filename, "DataFrame-Konvertierung fehlgeschlagen")
    ELSE ComparedResult(gt, tool, filename, SameFrame(dataframe(gt)._dataframe[1]))

\* "Update Metriken" in run: the counters after one call of _compare_tables.
UpdateMetrics(m, comparison, time) ==
    [m EXCEPT
        !.successful_extractions = @ + 1,
        !.total_time_ms = @ + time,
        !.structure_matches = IF structure_match(comparison) THEN @ + 1 ELSE @,
        !.header_matches = IF comparison.header_match THEN @ + 1 ELSE @,
        !.total_cells = @ + comparison.total_cells,
        !.total_matched = @ + comparison.matched_cells,
        !.total_exact = @ + comparison.exact_matches,
        !.total_mismatches = @ + comparison.mismatches]

\* The loop "for gt in gt_tables" of a successful extraction, from turn k
\* on: the records appended, the counters, and whether an exception ended
\* the loop.
RECURSIVE CompareLoop(_, _, _, _, _, _, _, _)
RECURSIVE AppendComparison(_, _, _, _, _, _, _, _, _)
AppendComparison(gts, k, outcomes, tool, filename, time, m, recs, comparison) ==
    CompareLoop(gts, k + 1, outcomes, tool, filename, time,
                UpdateMetrics(m, comparison, time), Append(recs, comparison))

CompareLoop(gts, k, outcomes, tool, filename, time, m, recs) ==
    IF k > Len(gts)
    THEN [metrics |-> m, comparisons |-> recs, raised |-> FALSE]
    ELSE LET m1 == [m EXCEPT !.total_tables = @ + 1]
         IN  IF outcomes[k] = "raise"
             THEN [metrics |-> m1, comparisons |-> recs, raised |-> TRUE]
             ELSE IF outcomes[k] = "notfound"
             THEN CompareLoop(gts, k + 1, outcomes, tool, filename, time, m1,
                      Append(recs, FailedComparison(gts[k], tool, filename,
                                                    "nicht gefunden oder keine Daten")))
             ELSE AppendComparison(gts, k, outcomes, tool, filename, time, m1, recs,
                      _compare_tables(gts[k], tool, filename, outcomes[k]))

\* The turns of the loop "for gt in gt_tables" that call _compare_tables
\* and so read gt.dataframe: those before the first exception whose table
\* was found.
Compared(outcomes) ==
    { k \in DOMAIN outcomes :
        /\ outcomes[k] \in { "ok", "converr" }
        /\ \A j \in 1..(k - 1) : outcomes[j] # "raise" }

\* The manifest after the body of the loop over extractors: the entries
\* whose dataframe was read.  gts[k] is the k-th entry of the file.
ManifestAfter(m, filename, e, outcomes) ==
    IF e.raises \/ ~success(e)
    THEN m
    ELSE [ i \in DOMAIN m |->
            LET k == Len(get_all_for_file(SubSeq(m, 1, i), filename))
            IN  IF m[i].file_name = filename /\ k \in Compared(outcomes)
                THEN dataframe(m[i])
                ELSE m[i] ]

\* The except clause of run: one failed record per ground-truth table.
ExceptClause(r, gts, tool, filename, message) ==
    [metrics |-> [r.metrics EXCEPT !.total_tables = @ + Len(gts)],
     comparisons |-> r.comparisons \o FailedComparisons(gts, tool, filename, message)]

\* The body of the loop over extractors for one file with ground truth.
PairResult(gts, tool, filename, e, outcomes, m) ==
    LET start == [metrics |-> m, comparisons |-> << >>, raised |-> FALSE]
        loop == CompareLoop(gts, 1, outcomes, tool, filename,
                            e.execution_time_ms, m, << >>)
    IN  IF e.raises
        THEN ExceptClause(start, gts, tool, filename, e.error[1])
        ELSE IF ~success(e)
        THEN [metrics |-> [m EXCEPT !.total_tables = @ + Len(gts)],
              comparisons |-> FailedComparisons(gts, tool, filename, e.error[1])]
        ELSE IF loop.raised
        THEN ExceptClause(loop, gts, tool, filename, "exception in comparison")
        ELSE [metrics |-> loop.metrics, comparisons |-> loop.comparisons]

\* A file without ground-truth tables is skipped.
RunCSVSkip ==
    /\ runner = "csv"
    /\ run_pc = "running"
    /\ file_idx <= Len(files)
    /\ get_all_for_file(manifest, files[file_idx]) = << >>
    /\ file_idx' = file_idx + 1
    /\ UNCHANGED << runner, files, manifest, extractors, ext_idx, tool_metrics,
                    detailed_results, table_reports, table_comparisons,
                    extract_calls, run_pc >>
    /\ UNCHANGED << rvars, dvars, cvars, kvars, mvars, svars >>

RunCSVPair ==
    /\ runner = "csv"
    /\ run_pc = "running"
    /\ file_idx <= Len(files)
    /\ LET filename == files[file_idx]
           tool == extractors[ext_idx]
           gts == get_all_for_file(manifest, filename)
       IN  /\ gts # << >>
           /\ \E e \in Extractions :
              \E outcomes \in [1..Len(gts) -> TableOutcomes] :
                LET r == PairResult(gts, tool, filename, e, outcomes,
                                    tool_metrics[tool])
                IN  /\ tool_metrics' = [tool_metrics EXCEPT ![tool] = r.metrics]
                    /\ table_comparisons' = table_comparisons \o r.comparisons
                    /\ extract_calls' =
                           Append(extract_calls, ExtractCall(filename, tool, e))
                    /\ manifest' = ManifestAfter(manifest, filename, e, outcomes)
    /\ file_idx' = NextFileIdx
    /\ ext_idx' = NextExtIdx
    /\ UNCHANGED << runner, files, extractors, detailed_results, table_reports,
                    run_pc >>
    /\ UNCHANGED << rvars, dvars, cvars, kvars, mvars, svars >>

\* Both runs: "return result" after the loop over files.
RunReturn ==
    /\ run_pc = "running"
    /\ file_idx > Len(files)
    /\ run_pc' = "returned"
    /\ UNCHANGED << runner, files, manifest, extractors, file_idx, ext_idx, tool_metrics,
                    detailed_results, table_reports, table_comparisons,
                    extract_calls >>
    /\ UNCHANGED << rvars, dvars, cvars, kvars, mvars, svars >>

InitRun ==
    /\ runner \in { "pages", "csv" }
    /\ files \in FileLists
    /\ manifest \in IF runner = "pages" THEN GroundTruthManifests
                    ELSE CSVGroundTruthManifests
    /\ extractors \in ExtractorLists
    /\ file_idx = 1
    /\ ext_idx = 1
    /\ tool_metrics =
           [ t \in SeqToSet(extractors) |->
               IF runner = "pages" THEN ToolMetrics ELSE CSVToolMetrics ]
    /\ detailed_results = << >>
    /\ table_reports = << >>
    /\ table_comparisons = << >>
    /\ extract_calls = << >>
    /\ run_pc = "running"

NextRun == RunPair \/ RunCSVSkip \/ RunCSVPair \/ RunReturn

IdleRun ==
    /\ runner = "none"
    /\ files = << >>
    /\ manifest = << >>
    /\ extractors = << >>
    /\ file_idx = 1
    /\ ext_idx = 1
    /\ tool_metrics = << >>
    /\ detailed_results = << >>
    /\ table_reports = << >>
    /\ table_comparisons = << >>
    /\ extract_calls = << >>
    /\ run_pc = "returned"

\* ------------------------------------------------------------------------
\* Calls of the comparator's functions
\* ------------------------------------------------------------------------
NoCellResult == CellResult(FALSE, "none")

NoTableResult == << >>

InitCompare ==
    /\ cmode \in { "cells", "parse", "tables", "mixed" }
    /\ normalize_whitespace \in IF cmode \in { "cells", "mixed" } THEN BOOLEAN ELSE { TRUE }
    /\ case_insensitive \in IF cmode \in { "cells", "mixed" } THEN BOOLEAN ELSE { FALSE }
    /\ numeric_tolerance \in IF cmode \in { "cells", "mixed" } THEN Tolerances
                              ELSE { DefaultTolerance }
    /\ c_expected \in IF cmode = "cells" THEN CellValues ELSE { NoneCell }
    /\ c_actual \in IF cmode = "cells" THEN CellValues ELSE { NoneCell }
    /\ cell_result = NoCellResult
    /\ c_value \in IF cmode = "parse" THEN ParseInputs ELSE { << >> }
    /\ parsed = None
    /\ gt_df \in IF cmode = "tables" THEN GTFrames
                  ELSE IF cmode = "mixed" THEN MixedGTFrames ELSE { GTFrame(0, 1) }
    /\ ext_df \in IF cmode = "tables" THEN ExtFrames
                   ELSE IF cmode = "mixed" THEN MixedExtFrames ELSE { GTFrame(0, 1) }
    /\ has_header \in IF cmode = "tables" THEN BOOLEAN ELSE { TRUE }
    /\ table_result = NoTableResult
    /\ cpc = "call"

CompareCells ==
    /\ cmode = "cells"
    /\ cpc = "call"
    /\ cell_result' = _compare_cells(c_expected, c_actual, normalize_whitespace,
                                     case_insensitive, numeric_tolerance)
    /\ cpc' = "done"
    /\ UNCHANGED << cmode, normalize_whitespace, case_insensitive, numeric_tolerance,
                    c_expected, c_actual, c_value, parsed, gt_df, ext_df,
                    has_header, table_result >>
    /\ UNCHANGED << rvars, dvars, bvars, kvars, mvars, svars >>

ParseNumber ==
    /\ cmode = "parse"
    /\ cpc = "call"
    /\ parsed' = _parse_number(c_value)
    /\ cpc' = "done"
    /\ UNCHANGED << cmode, normalize_whitespace, case_insensitive, numeric_tolerance,
                    c_expected, c_actual, cell_result, c_value, gt_df, ext_df,
                    has_header, table_result >>
    /\ UNCHANGED << rvars, dvars, bvars, kvars, mvars, svars >>

CompareTables ==
    /\ cmode \in { "tables", "mixed" }
    /\ cpc = "call"
    /\ table_result' = CompareDataFrames(gt_df, ext_df, has_header,
                                         normalize_whitespace, case_insensitive,
                                         numeric_tolerance)
    /\ cpc' = "done"
    /\ UNCHANGED << cmode, normalize_whitespace, case_insensitive, numeric_tolerance,
                    c_expected, c_actual, cell_result, c_value, parsed, gt_df,
                    ext_df, has_header >>
    /\ UNCHANGED << rvars, dvars, bvars, kvars, mvars, svars >>

NextCompare == CompareCells \/ ParseNumber \/ CompareTables

IdleCompare ==
    /\ cmode = "none"
    /\ normalize_whitespace = TRUE
    /\ case_insensitive = FALSE
    /\ numeric_tolerance = DefaultTolerance
    /\ c_expected = NoneCell
    /\ c_actual = NoneCell
    /\ cell_result = NoCellResult
    /\ c_value = << >>
    /\ parsed = None
    /\ gt_df = GTFrame(0, 1)
    /\ ext_df = GTFrame(0, 1)
    /\ has_header = TRUE
    /\ table_result = NoTableResult
    /\ cpc = "done"

\* ------------------------------------------------------------------------
\* Derived metrics.  A float quotient n / d is the pair << n, d >>, d > 0.
\* ------------------------------------------------------------------------
Ratio(n, d) == << n, d >>

Zero == Ratio(0, 1)

One == Ratio(1, 1)

Max(a, b) == IF a >= b THEN a ELSE b

\* ToolMetrics.table_accuracy
table_accuracy(m) ==
    IF m.total_files > 0 THEN Ratio(m.table_exact, m.total_files) ELSE Zero

\* ToolMetrics.table_page_accuracy
table_page_accuracy(m) ==
    Ratio(m.table_page_exact + m.table_page_partial,
          Max(m.table_exact * m.total_files, 1))

\* ToolMetrics.spanning_recall
spanning_recall(m) ==
    IF m.spanning_total_gt > 0
    THEN Ratio(m.spanning_detected, m.spanning_total_gt)
    ELSE One

\* ToolMetrics.image_accuracy
image_accuracy(m) ==
    IF m.total_files > 0 THEN Ratio(m.image_exact, m.total_files) ELSE Zero

\* ToolMetrics.avg_time_ms
avg_time_ms(m) ==
    IF m.successful > 0 THEN Ratio(m.total_time_ms, m.successful) ELSE Zero

\* CSVToolMetrics.success_rate
success_rate(m) ==
    IF m.total_tables = 0 THEN Zero
    ELSE Ratio(m.successful_extractions, m.total_tables)

\* CSVToolMetrics.structure_accuracy
structure_accuracy(m) ==
    IF m.successful_extractions = 0 THEN Zero
    ELSE Ratio(m.structure_matches, m.successful_extractions)

\* CSVToolMetrics.cell_accuracy
cell_accuracy(m) ==
    IF m.total_cells = 0 THEN Zero ELSE Ratio(m.total_matched, m.total_cells)

\* CSVToolMetrics.exact_accuracy
exact_accuracy(m) ==
    IF m.total_cells = 0 THEN Zero ELSE Ratio(m.total_exact, m.total_cells)

\* CSVToolMetrics.header_accuracy
header_accuracy(m) ==
    IF m.successful_extractions = 0 THEN Zero
    ELSE Ratio(m.header_matches, m.successful_extractions)

\* CSVToolMetrics.avg_time_ms
csv_avg_time_ms(m) ==
    IF m.successful_extractions = 0 THEN Zero
    ELSE Ratio(m.total_time_ms, m.successful_extractions)

\* ------------------------------------------------------------------------
\* Ranking: BenchmarkResult.get_ranking and CSVBenchmarkResult.get_ranking
\* ------------------------------------------------------------------------
MaxTools == 3

ToolNames == << "pymupdf", "pdfplumber", "camelot", "tabula" >>

\* Metrics objects a finished run may hold.
ToolMetricsSamples ==
    { ToolMetrics,
      [ToolMetrics EXCEPT !.total_files = 2, !.successful = 2, !.total_time_ms = 6,
                          !.table_exact = 1, !.image_exact = 2],
      [ToolMetrics EXCEPT !.total_files = 2, !.successful = 1, !.total_time_ms = 5,
                          !.table_exact = 2, !.table_page_exact = 1,
                          !.spanning_total_gt = 2, !.spanning_detected = 1] }

CSVToolMetricsSamples ==
    { CSVToolMetrics,
      [CSVToolMetrics EXCEPT !.total_tables = 2, !.successful_extractions = 2,
                             !.structure_matches = 1, !.total_cells = 8,
                             !.total_matched = 6, !.total_exact = 4,
                             !.total_mismatches = 2, !.header_matches = 2,
                             !.total_time_ms = 6],
      [CSVToolMetrics EXCEPT !.total_tables = 2, !.successful_extractions = 1,
                             !.structure_matches = 1, !.total_cells = 4,
                             !.total_matched = 4, !.total_exact = 4,
                             !.header_matches = 1, !.total_time_ms = 5] }

MetricNames(kind) ==
    IF kind = "pages"
    THEN { "table_accuracy", "table_page_accuracy", "spanning_recall",
           "image_accuracy", "avg_time_ms", "total_files", "unknown" }
    ELSE { "success_rate", "structure_accuracy", "cell_accuracy", "exact_accuracy",
           "header_accuracy", "avg_time_ms", "total_tables", "unknown" }

\* getattr(m, metric, 0)
GetAttr(kind, m, metric) ==
    IF kind = "pages"
    THEN CASE metric = "table_accuracy" -> table_accuracy(m)
           [] metric = "table_page_accuracy" -> table_page_accuracy(m)
           [] metric = "spanning_recall" -> spanning_recall(m)
           [] metric = "image_accuracy" -> image_accuracy(m)
           [] metric = "avg_time_ms" -> avg_time_ms(m)
           [] metric = "total_files" -> Ratio(m.total_files, 1)
           [] OTHER -> Zero
    ELSE CASE metric = "success_rate" -> success_rate(m)
           [] metric = "structure_accuracy" -> structure_accuracy(m)
           [] metric = "cell_accuracy" -> cell_accuracy(m)
           [] metric = "exact_accuracy" -> exact_accuracy(m)
           [] metric = "header_accuracy" -> header_accuracy(m)
           [] metric = "avg_time_ms" -> csv_avg_time_ms(m)
           [] metric = "total_tables" -> Ratio(m.total_tables, 1)
           [] OTHER -> Zero

\* p < q for quotients
Less(p, q) == p[1] * q[2] < q[1] * p[2]

\* sorted(...) keeps equal elements in their order, also with reverse=True:
\* each element goes in front of the first one it strictly precedes.
RECURSIVE InsertSorted(_, _, _)
InsertSorted(sorted, x, reverse) ==
    IF sorted = << >> THEN << x >>
    ELSE IF (IF reverse THEN Less(Head(sorted)[2], x[2]) ELSE Less(x[2], Head(sorted)[2]))
    THEN << x >> \o sorted
    ELSE << Head(sorted) >> \o InsertSorted(Tail(sorted), x, reverse)

RECURSIVE Sorted(_, _)
Sorted(items, reverse) ==
    IF items = << >> THEN << >>
    ELSE InsertSorted(Sorted(SubSeq(items, 1, Len(items) - 1), reverse),
                      items[Len(items)], reverse)

Reverse(s) == [ i \in 1..Len(s) |-> s[Len(s) + 1 - i] ]

\* Mutant: a descending ranking made by reversing the ascending one.
get_ranking_ReverseAscending(kind, items, metric) ==
    LET ranking == [ i \in 1..Len(items) |->
                       << items[i][1], GetAttr(kind, items[i][2], metric) >> ]
    IN  IF metric # "avg_time_ms" THEN Reverse(Sorted(ranking, FALSE))
        ELSE Sorted(ranking, FALSE)

\* get_ranking(metric) of both result classes
get_ranking(kind, items, metric) ==
    LET ranking == [ i \in 1..Len(items) |->
                       << items[i][1], GetAttr(kind, items[i][2], metric) >> ]
        reverse == metric # "avg_time_ms"
    IN  Sorted(ranking, reverse)

InitRanking ==
    /\ k_kind \in { "pages", "csv" }
    /\ \E n \in 1..MaxTools :
          k_tool_metrics \in
              { [ i \in 1..n |-> << ToolNames[i], ms[i] >> ] :
                  ms \in [1..n -> IF k_kind = "pages" THEN ToolMetricsSamples
                                  ELSE CSVToolMetricsSamples] }
    /\ k_metric \in MetricNames(k_kind)
    /\ k_ranking = << >>
    /\ kpc = "call"

GetRanking ==
    /\ kpc = "call"
    /\ k_ranking' = get_ranking(k_kind, k_tool_metrics, k_metric)
    /\ kpc' = "done"
    /\ UNCHANGED << k_kind, k_tool_metrics, k_metric >>
    /\ UNCHANGED << rvars, dvars, bvars, cvars, mvars, svars >>

NextRanking == GetRanking

IdleRanking ==
    /\ k_kind = "none"
    /\ k_tool_metrics = << >>
    /\ k_metric = "none"
    /\ k_ranking = << >>
    /\ kpc = "done"

\* ------------------------------------------------------------------------
\* GroundTruthManifest and CSVGroundTruthManifest: get, add, remove
\* (benchmark/ground_truth.py, benchmark/csv_ground_truth.py)
\* ------------------------------------------------------------------------
\* The entries handed to CSVGroundTruthManifest.add.
CSVGroundTruthEntries ==
    { CSVGroundTruths(n, { id }, loaded)[1] :
        n \in FileNames, id \in CSVTableIds, loaded \in BOOLEAN }

\* list.remove(x): the list without its first element equal to x.
ListRemove(list, x) ==
    LET first == CHOOSE i \in 1..Len(list) :
                     list[i] = x /\ \A j \in 1..(i - 1) : list[j] # x
    IN  SubSeq(list, 1, first - 1) \o SubSeq(list, first + 1, Len(list))

\* CSVGroundTruthManifest.get
csv_manifest_get(m, file_name, table_id) ==
    LET hits == SelectSeq(m, LAMBDA t :
                    t.file_name = file_name /\ t.table_id = table_id)
    IN  IF hits = << >> THEN None ELSE Some(hits[1])

manifest_add_AppendOnly(m, doc) == Append(m, doc)

\* GroundTruthManifest.add
manifest_add(m, doc) ==
    LET existing == manifest_get(m, doc.file_name)
    IN  IF existing # None
        THEN Append(ListRemove(m, existing[1]), doc)
        ELSE Append(m, doc)

\* GroundTruthManifest.remove: the list left and the value returned.
manifest_remove(m, file_name) ==
    LET existing == manifest_get(m, file_name)
    IN  IF existing # None
        THEN [entries |-> ListRemove(m, existing[1]), returned |-> TRUE]
        ELSE [entries |-> m, returned |-> FALSE]

\* CSVGroundTruthManifest.add
csv_manifest_add(m, table) ==
    LET existing == csv_manifest_get(m, table.file_name, table.table_id)
    IN  IF existing # None
        THEN Append(ListRemove(m, existing[1]), table)
        ELSE Append(m, table)

\* CSVGroundTruthManifest.remove
csv_manifest_remove(m, file_name, table_id) ==
    LET existing == csv_manifest_get(m, file_name, table_id)
    IN  IF existing # None
        THEN [entries |-> ListRemove(m, existing[1]), returned |-> TRUE]
        ELSE [entries |-> m, returned |-> FALSE]

\* A call: the operation, its arguments, the local "existing" and the
\* value returned (None for add).
ManifestCall(op, entry, file_name, table_id, existing, returned) ==
    [op |-> op, entry |-> entry, file_name |-> file_name, table_id |-> table_id,
     existing |-> existing, returned |-> returned]

NoCall == ManifestCall("none", None, "", 0, None, None)

\* GroundTruthManifest() or CSVGroundTruthManifest(): an empty manifest.
InitManifest ==
    /\ m_kind \in { "pages", "csv" }
    /\ documents = << >>
    /\ csv_tables = << >>
    /\ m_call = NoCall

AddDocument ==
    /\ m_kind = "pages"
    /\ \E doc \in DocumentGroundTruths :
        /\ documents' = manifest_add(documents, doc)
        /\ m_call' = ManifestCall("add", Some(doc), doc.file_name, 0,
                                  manifest_get(documents, doc.file_name), None)
    /\ UNCHANGED << m_kind, csv_tables >>
    /\ UNCHANGED << rvars, dvars, bvars, cvars, kvars, svars >>

RemoveDocument ==
    /\ m_kind = "pages"
    /\ \E n \in FileNames :
        LET r == manifest_remove(documents, n)
        IN  /\ documents' = r.entries
            /\ m_call' = ManifestCall("remove", None, n, 0,
                                      manifest_get(documents, n), Some(r.returned))
    /\ UNCHANGED << m_kind, csv_tables >>
    /\ UNCHANGED << rvars, dvars, bvars, cvars, kvars, svars >>

AddTable ==
    /\ m_kind = "csv"
    /\ \E table \in CSVGroundTruthEntries :
        /\ csv_tables' = csv_manifest_add(csv_tables, table)
        /\ m_call' = ManifestCall("add", Some(table), table.file_name, table.table_id,
                          csv_manifest_get(csv_tables, table.file_name, table.table_id),
                          None)
    /\ UNCHANGED << m_kind, documents >>
    /\ UNCHANGED << rvars, dvars, bvars, cvars, kvars, svars >>

RemoveTable ==
    /\ m_kind = "csv"
    /\ \E n \in FileNames, id \in CSVTableIds :
        LET r == csv_manifest_remove(csv_tables, n, id)
        IN  /\ csv_tables' = r.entries
            /\ m_call' = ManifestCall("remove", None, n, id,
                                      csv_manifest_get(csv_tables, n, id), Some(r.returned))
    /\ UNCHANGED << m_kind, documents >>
    /\ UNCHANGED << rvars, dvars, bvars, cvars, kvars, svars >>

NextManifest == AddDocument \/ RemoveDocument \/ AddTable \/ RemoveTable

IdleManifest ==
    /\ m_kind = "none"
    /\ documents = << >>
    /\ csv_tables = << >>
    /\ m_call = NoCall

\* ------------------------------------------------------------------------
\* to_dict / from_dict and save / load of the two manifests
\* (benchmark/ground_truth.py, benchmark/csv_ground_truth.py, app.py)
\* ------------------------------------------------------------------------
\* TableDefinition(...) with __post_init__: end_page 0 becomes start_page.
TableDefinition(table_id, start_page, end_page) ==
    [table_id |-> table_id, start_page |-> start_page,
     end_page |-> IF end_page = 0 THEN start_page ELSE end_page]

\* DocumentGroundTruth(...) with __post_init__: a table_count of 0 is set to
\* len(tables) when there are tables.  pages, category, difficulty and
\* notes are copied like image_count and are left out.
DocumentGroundTruth(file_name, count, tables, image_count) ==
    [file_name |-> file_name,
     table_count |-> IF tables # << >> /\ count = 0 THEN Len(tables) ELSE count,
     tables |-> tables, image_count |-> image_count]

\* TableDefinition.to_dict / from_dict: the dict is a record of its keys.
TableToDict(t) ==
    [table_id |-> t.table_id, start_page |-> t.start_page, end_page |-> t.end_page]

TableFromDict(data) == TableDefinition(data.table_id, data.start_page, data.end_page)

\* DocumentGroundTruth.to_dict / from_dict
DocToDict(d) ==
    [file_name |-> d.file_name, table_count |-> d.table_count,
     tables |-> [ i \in 1..Len(d.tables) |-> TableToDict(d.tables[i]) ],
     image_count |-> d.image_count]

DocFromDict(data) ==
    DocumentGroundTruth(data.file_name, data.table_count,
                        [ i \in 1..Len(data.tables) |-> TableFromDict(data.tables[i]) ],
                        data.image_count)

\* CSVGroundTruth.to_dict / from_dict: _dataframe is not written, and the
\* entry read back has _dataframe None.
CSVToDict(c) ==
    [table_id |-> c.table_id, file_name |-> c.file_name, rows |-> c.rows,
     cols |-> c.cols]

CSVFromDict(data) ==
    [table_id |-> data.table_id, file_name |-> data.file_name, rows |-> data.rows,
     cols |-> data.cols, _dataframe |-> None]

\* json.dumps and json.loads of an int: its decimal digits.
RECURSIVE Repr(_)
Repr(n) ==
    IF n < Len(Digits) THEN << Digits[n + 1] >>
    ELSE Repr(n \div Len(Digits)) \o << Digits[(n % Len(Digits)) + 1] >>

JsonTable(data) ==
    [table_id |-> Repr(data.table_id), start_page |-> Repr(data.start_page),
     end_page |-> Repr(data.end_page)]

ParseTable(text) ==
    [table_id |-> IntOf(text.table_id), start_page |-> IntOf(text.start_page),
     end_page |-> IntOf(text.end_page)]

JsonDoc(data) ==
    [file_name |-> data.file_name, table_count |-> Repr(data.table_count),
     tables |-> [ i \in 1..Len(data.tables) |-> JsonTable(data.tables[i]) ],
     image_count |-> Repr(data.image_count)]

ParseDoc(text) ==
    [file_name |-> text.file_name, table_count |-> IntOf(text.table_count),
     tables |-> [ i \in 1..Len(text.tables) |-> ParseTable(text.tables[i]) ],
     image_count |-> IntOf(text.image_count)]

JsonCSV(data) ==
    [table_id |-> Repr(data.table_id), file_name |-> data.file_name,
     rows |-> Repr(data.rows), cols |-> Repr(data.cols)]

ParseCSV(text) ==
    [table_id |-> IntOf(text.table_id), file_name |-> text.file_name,
     rows |-> IntOf(text.rows), cols |-> IntOf(text.cols)]

\* GroundTruthManifest.save / load: the JSON document written and read.
manifest_save(docs) ==
    [version |-> "2.0",
     documents |-> [ i \in 1..Len(docs) |-> JsonDoc(DocToDict(docs[i])) ]]

manifest_load(text) ==
    [ i \in 1..Len(text.documents) |-> DocFromDict(ParseDoc(text.documents[i])) ]

\* CSVGroundTruthManifest.save / load
csv_manifest_save(entries) ==
    [version |-> "1.0", type |-> "csv_ground_truth",
     tables |-> [ i \in 1..Len(entries) |-> JsonCSV(CSVToDict(entries[i])) ]]

csv_manifest_load(text) ==
    [ i \in 1..Len(text.tables) |-> CSVFromDict(ParseCSV(text.tables[i])) ]

\* The documents the constructor makes: a count only, one table given with
\* end_page 0, two tables of which one spans pages.
SavedTableLists ==
    { << >>,
      << TableDefinition(1, 2, 0) >>,
      << TableDefinition(1, 1, 1), TableDefinition(2, 2, 12) >> }

SavedDocuments ==
    { DocumentGroundTruth(n, count, ts, images) :
        n \in FileNames, count \in 0..2, ts \in SavedTableLists, images \in { 0, 11 } }

KeysOf(entries) == [ i \in 1..Len(entries) |-> << entries[i].file_name >> ]

CSVKeysOf(entries) ==
    [ i \in 1..Len(entries) |-> << entries[i].file_name, entries[i].table_id >> ]

\* A manifest in memory, before it is saved.
InitSave ==
    /\ s_kind \in { "pages", "csv" }
    /\ s_manifest \in
         IF s_kind = "pages"
         THEN { m \in SeqsUpTo(SavedDocuments, 0, 2) : Injective(KeysOf(m)) }
         ELSE { m \in SeqsUpTo(CSVGroundTruthEntries, 0, 2) : Injective(CSVKeysOf(m)) }
    /\ s_text = None
    /\ s_loaded = None
    /\ spc = "memory"

\* app.py, tab "Anzahl": doc.table_count = new_t for an entry of the manifest.
EditTableCount ==
    /\ s_kind = "pages"
    /\ spc = "memory"
    /\ \E i \in 1..Len(s_manifest), new_t \in 0..2 :
        s_manifest' = [s_manifest EXCEPT ![i].table_count = new_t]
    /\ UNCHANGED << s_kind, s_text, s_loaded, spc >>
    /\ UNCHANGED << rvars, dvars, bvars, cvars, kvars, mvars >>

SaveManifest ==
    /\ spc = "memory"
    /\ s_text' = Some(IF s_kind = "pages" THEN manifest_save(s_manifest)
                      ELSE csv_manifest_save(s_manifest))
    /\ spc' = "saved"
    /\ UNCHANGED << s_kind, s_manifest, s_loaded >>
    /\ UNCHANGED << rvars, dvars, bvars, cvars, kvars, mvars >>

LoadManifest ==
    /\ spc = "saved"
    /\ s_loaded' = Some(IF s_kind = "pages" THEN manifest_load(s_text[1])
                        ELSE csv_manifest_load(s_text[1]))
    /\ spc' = "loaded"
    /\ UNCHANGED << s_kind, s_manifest, s_text >>
    /\ UNCHANGED << rvars, dvars, bvars, cvars, kvars, mvars >>

NextSave == EditTableCount \/ SaveManifest \/ LoadManifest

IdleSave ==
    /\ s_kind = "none"
    /\ s_manifest = << >>
    /\ s_text = None
    /\ s_loaded = None
    /\ spc = "done"

\* The variables of the other parts do not change.
IdleReconcile ==
    /\ gt_tables = << >>
    /\ extracted_tables = << >>
    /\ used_extracted = {}
    /\ comparisons = << >>
    /\ best_matches = << >>
    /\ gt_idx = 1
    /\ rpc = "done"

IdleDetect ==
    /\ detect_continuations = TRUE
    /\ extract_data = TRUE
    /\ doc_pages = << >>
    /\ page_number = 0
    /\ page_tables = << >>
    /\ idx = 1
    /\ d_extracted_tables = << >>
    /\ legacy_data = << >>
    /\ logical_table_id = 0
    /\ total_continuations = 0
    /\ last_table_info = NoInfo
    /\ current_spanning_table = 0
    /\ spanning_data = << >>
    /\ d_result = NoResult
    /\ dpc = "done"

DetectInit == InitDetect /\ IdleReconcile /\ IdleRun /\ IdleCompare /\ IdleRanking /\ IdleManifest /\ IdleSave

SpecDetect == DetectInit /\ [][NextDetect]_vars

ReconcileInit == InitReconcile /\ IdleDetect /\ IdleRun /\ IdleCompare /\ IdleRanking /\ IdleManifest /\ IdleSave

SpecReconcile == ReconcileInit /\ [][NextReconcile]_vars

RunInit == InitRun /\ IdleReconcile /\ IdleDetect /\ IdleCompare /\ IdleRanking /\ IdleManifest /\ IdleSave

Spec == RunInit /\ [][NextRun]_vars

CompareInit == InitCompare /\ IdleReconcile /\ IdleDetect /\ IdleRun /\ IdleRanking /\ IdleManifest /\ IdleSave

SpecCompare == CompareInit /\ [][NextCompare]_vars

RankingInit ==
    InitRanking /\ IdleReconcile /\ IdleDetect /\ IdleRun /\ IdleCompare /\ IdleManifest /\ IdleSave

SpecRanking == RankingInit /\ [][NextRanking]_vars

ManifestInit ==
    InitManifest /\ IdleReconcile /\ IdleDetect /\ IdleRun /\ IdleCompare /\ IdleRanking /\ IdleSave

SpecManifest == ManifestInit /\ [][NextManifest]_vars

SaveInit ==
    InitSave /\ IdleReconcile /\ IdleDetect /\ IdleRun /\ IdleCompare /\ IdleRanking
             /\ IdleManifest

SpecSave == SaveInit /\ [][NextSave]_vars

\* ========================================================================
\* Properties of the reconciler
\* ========================================================================
Main == main_extracted(extracted_tables)

\* The ground-truth turns taken so far.
Turns == 1..Len(best_matches)

\* The table_ids consumed before turn k, read off the matches picked.
UsedAt(k) ==
    { Main[best_matches[j]].table_id : j \in { n \in 1..(k - 1) : best_matches[n] # 0 } }

UnusedAt(k) == { i \in 1..Len(Main) : Main[i].table_id \notin UsedAt(k) }

\* What the specification means by a table's range and by overlap.
ExtRangeOf(t) ==
    << t.page, IF t.continues_to_page = 0 THEN t.page ELSE t.continues_to_page >>

SharePage(r1, r2) ==
    \E p \in 1..MaxPage : r1[1] <= p /\ p <= r1[2] /\ r2[1] <= p /\ r2[2] >= p

ExactFor(k) == { i \in 1..Len(Main) : ExtRangeOf(Main[i]) = GTRange(gt_tables[k]) }

OverlapFor(k) == { i \in 1..Len(Main) : SharePage(GTRange(gt_tables[k]), ExtRangeOf(Main[i])) }

\* C3 as stated: every ground-truth table for which the extracted list holds
\* a non-continuation table with an identical page range gets status "exact".
C3_ExactForIdenticalRange ==
    \A k \in Turns : ExactFor(k) # {} => comparisons[k].match_status = "exact"

\* C3 amended: every ground-truth table for which, at its turn, a
\* not-yet-used non-continuation table with an identical page range exists
\* gets status "exact" (an earlier ground-truth entry may have consumed it).
C3_ExactForUnusedIdenticalRange ==
    \A k \in Turns :
        (ExactFor(k) \cap UnusedAt(k)) # {} => comparisons[k].match_status = "exact"

\* C3 witness: a later turn found its identical-range table still unused
\* although an earlier overlapping candidate stood before it in the list.
C3_Witness ==
    /\ rpc = "done"
    /\ \E k \in Turns :
        /\ k > 1
        /\ comparisons[k].match_status = "exact"
        /\ \E i \in ExactFor(k) \cap UnusedAt(k), j \in OverlapFor(k) \cap UnusedAt(k) : j < i

\* C4 as stated: no extracted table's page range is the extracted_pages of
\* two different ground-truth results, and a consumed table is never also
\* emitted as "extra".
C4_RangeConsumedOnce ==
    /\ \A j, k \in Turns :
          (j # k /\ comparisons[j].extracted_pages # NoPages)
              => comparisons[j].extracted_pages # comparisons[k].extracted_pages
    /\ \A n \in 1..Len(comparisons) :
          comparisons[n].match_status = "extra"
              => comparisons[n].table_id \notin UsedAt(Len(best_matches) + 1)

\* C4 amended: no extracted table (identified by its table_id) is the match
\* of two different ground-truth results, and a table consumed by a
\* ground-truth entry is never also emitted as "extra"; two results may show
\* the same extracted_pages when two distinct tables cover the same pages.
C4_TableConsumedOnce ==
    /\ \A j, k \in Turns :
          (j # k /\ best_matches[j] # 0)
              => /\ best_matches[j] # best_matches[k]
                 /\ best_matches[k] # 0 =>
                        Main[best_matches[j]].table_id # Main[best_matches[k]].table_id
    /\ \A n \in 1..Len(comparisons) :
          comparisons[n].match_status = "extra"
              => comparisons[n].table_id \notin UsedAt(Len(best_matches) + 1)
    /\ used_extracted = UsedAt(Len(best_matches) + 1)

\* C4 witness: two ground-truth entries compete for one extracted table and
\* another table is left over as "extra".
C4_Witness ==
    /\ rpc = "done"
    /\ \E j, k \in Turns :
          /\ j < k
          /\ best_matches[j] # 0
          /\ best_matches[j] \in OverlapFor(k)
          /\ best_matches[k] # best_matches[j]
    /\ \E n \in 1..Len(comparisons) : comparisons[n].match_status = "extra"

\* The main tables no ground-truth entry consumed, in extracted order.
Unconsumed ==
    SelectSeq(Main, LAMBDA t :
        \A k \in Turns : best_matches[k] = 0 \/ Main[best_matches[k]].table_id # t.table_id)

\* C5: the finished result list holds one entry per ground-truth table, in
\* ground-truth order, followed by one "extra" entry per non-continuation
\* table that no ground-truth entry consumed, in extracted order; its
\* length is |ground truth| + |unconsumed extracted tables|.
C5_OutputShape ==
    rpc = "done" =>
        /\ Len(comparisons) = Len(gt_tables) + Len(Unconsumed)
        /\ \A k \in 1..Len(gt_tables) :
              /\ comparisons[k].table_id = gt_tables[k].table_id
              /\ comparisons[k].gt_pages = << gt_tables[k].start_page, gt_tables[k].end_page >>
              /\ comparisons[k].match_status \in {"exact", "partial", "missing"}
        /\ \A j \in 1..Len(Unconsumed) :
              /\ comparisons[Len(gt_tables) + j].match_status = "extra"
              /\ comparisons[Len(gt_tables) + j].table_id = Unconsumed[j].table_id
              /\ comparisons[Len(gt_tables) + j].extracted_pages = ExtRangeOf(Unconsumed[j])

\* C5 witness: a finished result with two ground-truth entries, one table
\* consumed and two tables left over.
C5_Witness ==
    /\ rpc = "done"
    /\ Len(gt_tables) = 2
    /\ Len(Unconsumed) = 2
    /\ \E k \in Turns : best_matches[k] # 0

\* C6: a ground-truth entry is "missing" exactly when, at its turn, no
\* not-yet-used extracted table overlaps its range, and then nothing is
\* consumed and extracted_pages is None; when an unused table overlaps but
\* none has exactly the ground-truth range, the status is "partial".
C6_StatusClassification ==
    \A k \in Turns :
        LET overlapping == OverlapFor(k) \cap UnusedAt(k)
            exact == ExactFor(k) \cap UnusedAt(k)
        IN  /\ comparisons[k].match_status = "missing" <=> overlapping = {}
            /\ comparisons[k].match_status = "missing" =>
                  /\ best_matches[k] = 0
                  /\ comparisons[k].extracted_pages = NoPages
                  /\ UsedAt(k + 1) = UsedAt(k)
            /\ (overlapping # {} /\ exact = {}) => comparisons[k].match_status = "partial"

\* C6 witness: ground truth pages 1-1 against one extracted table covering
\* pages 1-3 was classified "partial".
C6_Witness ==
    /\ rpc = "done"
    /\ Len(gt_tables) = 1
    /\ GTRange(gt_tables[1]) = << 1, 1 >>
    /\ Len(Main) = 1
    /\ ExtRangeOf(Main[1]) = << 1, 3 >>
    /\ comparisons[1].match_status = "partial"

\* C7: every non-continuation extracted table whose range overlaps no
\* ground-truth range is emitted with status "extra", gt_pages (0, 0) and
\* its own range as extracted_pages.
C7_NonOverlappingIsExtra ==
    rpc = "done" =>
        \A i \in 1..Len(Main) :
            (\A k \in 1..Len(gt_tables) :
                 ~SharePage(GTRange(gt_tables[k]), ExtRangeOf(Main[i])))
            => \E n \in 1..Len(comparisons) :
                  comparisons[n] = [ table_id |-> Main[i].table_id,
                                     gt_pages |-> << 0, 0 >>,
                                     extracted_pages |-> ExtRangeOf(Main[i]),
                                     match_status |-> "extra" ]

\* C7 witness: a finished result in which a spanning table that shares no
\* page with any ground-truth table was emitted as "extra".
C7_Witness ==
    /\ rpc = "done"
    /\ \E i \in 1..Len(Main) :
          /\ is_spanning(Main[i])
          /\ \A k \in 1..Len(gt_tables) :
                 ~SharePage(GTRange(gt_tables[k]), ExtRangeOf(Main[i]))
          /\ \E n \in 1..Len(comparisons) :
                 /\ comparisons[n].match_status = "extra"
                 /\ comparisons[n].table_id = Main[i].table_id


\* ========================================================================
\* Properties of the continuation detector
\* ========================================================================
\* The pages seen so far on which find_tables reported no table.
GapPages == { g \in 1..Len(doc_pages) : doc_pages[g] = << >> }

\* The logical table a continuation marker was folded into.
OwnerOf(e) ==
    CHOOSE t \in SeqToSet(d_extracted_tables) : ~t.is_continuation /\ t.table_id = e.table_id

\* The tracking information the last table of page p leaves behind.
InfoAfterPage(p) ==
    LET last == doc_pages[p][Len(doc_pages[p])]
    IN  [cols |-> last.col_count, y1 |-> BBox(last, PageHeight(p))[4],
         page_height |-> PageHeight(p), page |-> p]

\* C8: a page with zero fragments clears the tracking state (last fragment,
\* open spanning table, accumulated rows), so no table that started before
\* the gap page reaches beyond it and no fragment after it is folded into
\* such a table.
C8_GapPageClearsTracking ==
    /\ (dpc = "page" /\ page_number \in GapPages) =>
          /\ last_table_info = NoInfo
          /\ current_spanning_table = 0
          /\ spanning_data = << >>
    /\ \A g \in GapPages :
          \A n \in 1..Len(d_extracted_tables) :
              LET e == d_extracted_tables[n]
              IN  IF e.is_continuation
                  THEN e.page > g => OwnerOf(e).page > g
                  ELSE e.page < g => ExtRangeOf(e)[2] < g

\* C8 witness: with detection on, the first fragment after a gap page met
\* the continuation predicate against the last fragment before the gap and
\* has been processed.
C8_Witness ==
    /\ dpc = "done"
    /\ detect_continuations
    /\ \E g \in GapPages :
          /\ g > 1 /\ g < Len(doc_pages)
          /\ doc_pages[g - 1] # << >>
          /\ doc_pages[g + 1] # << >>
          /\ _is_continuation(doc_pages[g + 1][1].col_count,
                              BBox(doc_pages[g + 1][1], PageHeight(g + 1)),
                              InfoAfterPage(g - 1), PageHeight(g + 1))

\* C9: on every page only the first fragment can be classified as a
\* continuation; every later fragment on the page starts a new logical table
\* with a newly allocated table_id, so a page records at most one
\* continuation.
C9_OnlyFirstFragmentContinues ==
    /\ \A n \in 2..Len(d_extracted_tables) :
          d_extracted_tables[n - 1].page = d_extracted_tables[n].page =>
              /\ ~d_extracted_tables[n].is_continuation
              /\ \A j \in 1..(n - 1) :
                    d_extracted_tables[j].table_id # d_extracted_tables[n].table_id
    /\ \A p \in 1..Len(doc_pages) :
          Cardinality({ n \in 1..Len(d_extracted_tables) :
                          /\ d_extracted_tables[n].page = p
                          /\ d_extracted_tables[n].is_continuation }) <= 1

\* C9 witness: a page whose first fragment was a continuation and whose
\* second fragment met the same predicate against it, yet became a new table.
C9_Witness ==
    \E n \in 2..Len(d_extracted_tables) :
        LET a == d_extracted_tables[n - 1]
            b == d_extracted_tables[n]
        IN  /\ a.page = b.page
            /\ a.is_continuation
            /\ _is_continuation(b.cols, b.bbox,
                                [cols |-> a.cols, y1 |-> a.bbox[4],
                                 page_height |-> PageHeight(a.page), page |-> a.page],
                                PageHeight(b.page))

\* The rows of a fragment without its header row, when it has one.
WithoutHeader(rows) ==
    IF _detect_header_row(rows) = 0 THEN Tail(rows) ELSE rows

\* The rows of the first fragment of pages from..to, headers excluded.
RECURSIVE ContinuationRows(_, _)
ContinuationRows(from, to) ==
    IF from > to THEN << >>
    ELSE WithoutHeader(CleanRows(TableExtract(doc_pages[from][1], from, 1)))
             \o ContinuationRows(from + 1, to)

\* C10 as stated: when folding is complete, the cell data of every spanning
\* logical table is the concatenation, in page order, of the rows of all its
\* page fragments, the header row of each continuation fragment excluded.
C10_SpanningDataExcludesHeaders ==
    (dpc = "done" /\ extract_data) =>
        \A n \in 1..Len(d_extracted_tables) :
            LET t == d_extracted_tables[n]
                k == Len(doc_pages[t.page])
            IN  (~t.is_continuation /\ t.continues_to_page > t.page) =>
                    t.data = CleanRows(TableExtract(doc_pages[t.page][k], t.page, k))
                                 \o ContinuationRows(t.page + 1, t.continues_to_page)

\* ------------------------------------------------------------------------
\* Properties of the benchmark runs
\* ------------------------------------------------------------------------
Tools == SeqToSet(extractors)

\* The ground-truth tables a file has in the CSV manifest.
CSVTablesOf(f) == { manifest[i] : i \in { j \in 1..Len(manifest) : manifest[j].file_name = f } }

\* The (file, adapter) pairs a run has to process.
PairsDue ==
    IF runner = "pages"
    THEN SeqToSet(files) \X Tools
    ELSE { f \in SeqToSet(files) : CSVTablesOf(f) # {} } \X Tools

PairsCalled ==
    { << extract_calls[i].file, extract_calls[i].tool >> : i \in 1..Len(extract_calls) }

FailedCalls ==
    { i \in 1..Len(extract_calls) : extract_calls[i].outcome \in { "raised", "error" } }

MessageOf(outcome) == IF outcome = "raised" THEN "adapter raised" ELSE "adapter error"

\* The failure records of one call for one ground-truth table.
FailureRecords(call, g) ==
    { k \in 1..Len(table_comparisons) :
        /\ table_comparisons[k].file_name = call.file
        /\ table_comparisons[k].tool_name = call.tool
        /\ table_comparisons[k].table_id = g.table_id
        /\ table_comparisons[k].actual_rows = 0
        /\ table_comparisons[k].actual_cols = 0
        /\ table_comparisons[k].error = Some(MessageOf(call.outcome)) }

\* The failed calls that leave the same record as this one: the call itself
\* and, when two adapters of the list report the same name, the other
\* adapter's call on the same file with the same message.
SameFailedCalls(call) ==
    { j \in FailedCalls : extract_calls[j] = call }

\* C1: in both runs a failing extract call (an error result or a raised
\* exception) never ends the run: no exception leaves run(), a run that has
\* returned has called every adapter on every document it had to process,
\* and in the CSV run each failed call has left exactly one record per
\* ground-truth table of its document, with actual_rows = actual_cols = 0
\* and the adapter's message.
C1_FailuresStayInsideRun ==
    /\ run_pc # "raised"
    /\ run_pc = "returned" => PairsCalled = PairsDue
    /\ runner = "csv" =>
          \A i \in FailedCalls :
              \A g \in CSVTablesOf(extract_calls[i].file) :
                  Cardinality(FailureRecords(extract_calls[i], g)) =
                      Cardinality(SameFailedCalls(extract_calls[i]))

NoGroundTruth(f) == \A i \in 1..Len(manifest) : manifest[i].file_name # f

AtFileWithoutGroundTruth ==
    /\ run_pc = "running"
    /\ file_idx <= Len(files)
    /\ NoGroundTruth(files[file_idx])

\* C2: in both runs, a step taken at a file that has no ground-truth entry
\* in the manifest changes no counter of any adapter and appends no
\* comparison, detail or report record.
C2_FileWithoutGroundTruthLeavesNoTrace ==
    [][ AtFileWithoutGroundTruth =>
          /\ tool_metrics' = tool_metrics
          /\ detailed_results' = detailed_results
          /\ table_reports' = table_reports
          /\ table_comparisons' = table_comparisons ]_vars

\* C11: with detect_continuations off no fragment is classified as a
\* continuation: every fragment processed is a logical table of its own
\* with the next table_id, no table has continues_to_page set, and the
\* continuation and spanning counts reported at the end are 0.
C11_NoContinuationWhenDetectionOff ==
    ~detect_continuations =>
        /\ Len(d_extracted_tables) = Len(legacy_data)
        /\ \A n \in 1..Len(d_extracted_tables) :
              /\ ~d_extracted_tables[n].is_continuation
              /\ d_extracted_tables[n].table_id = n
              /\ d_extracted_tables[n].continues_to_page = 0
              /\ page_range(d_extracted_tables[n]) =
                     << d_extracted_tables[n].page, d_extracted_tables[n].page >>
              /\ ~legacy_data[n].is_continuation
        /\ total_continuations = 0
        /\ d_result # NoResult =>
              /\ d_result.count = FragmentsSeen
              /\ d_result.continuations = 0
              /\ d_result.spanning_count = 0

\* C11 witness: a finished extraction with detection off of a document in
\* which the first fragment of a page meets the geometric continuation test
\* against the last fragment of the page before.
C11_Witness ==
    /\ ~detect_continuations
    /\ dpc = "done"
    /\ \E p \in 2..Len(doc_pages) :
          /\ doc_pages[p - 1] # << >>
          /\ doc_pages[p] # << >>
          /\ LET a == doc_pages[p - 1][Len(doc_pages[p - 1])]
                 b == doc_pages[p][1]
             IN  _is_continuation(b.col_count, BBox(b, PageHeight(p)),
                                  [cols |-> a.col_count,
                                   y1 |-> BBox(a, PageHeight(p - 1))[4],
                                   page_height |-> PageHeight(p - 1),
                                   page |-> p - 1],
                                  PageHeight(p))

\* ------------------------------------------------------------------------
\* Properties of the comparator
\* ------------------------------------------------------------------------
TableCompared == cmode = "tables" /\ cpc = "done"

\* The 0-based positions both DataFrames have.
CommonCells ==
    { rc \in (0..(Len(gt_df.rows) - 1)) \X (0..(Len(gt_df.columns) - 1)) :
        rc[1] < Len(ext_df.rows) /\ rc[2] < Len(ext_df.columns) }

GTCells == (0..(Len(gt_df.rows) - 1)) \X (0..(Len(gt_df.columns) - 1))

\* C12: after _compare_tables, total_cells is rows x columns of the ground
\* truth; exactly the positions both tables have are compared, each once
\* and each ground-truth cell with the extracted cell of the same position;
\* and every ground-truth cell outside them is a mismatch, so that matched
\* cells and mismatches add up to total_cells.
C12_TotalCellsIsGroundTruthSize ==
    TableCompared =>
        LET cells == table_result.cell_comparisons
            unmatched == { k \in 1..Len(cells) : ~cells[k].match }
        IN  /\ table_result.total_cells = Len(gt_df.rows) * Len(gt_df.columns)
            /\ Len(cells) = Min(Len(gt_df.rows), Len(ext_df.rows))
                              * Min(Len(gt_df.columns), Len(ext_df.columns))
            /\ { << cells[k].row, cells[k].col >> : k \in 1..Len(cells) } = CommonCells
            /\ Len(cells) = Cardinality(CommonCells)
            /\ \A k \in 1..Len(cells) :
                  /\ cells[k].expected = gt_df.rows[cells[k].row + 1][cells[k].col + 1]
                  /\ cells[k].actual = ext_df.rows[cells[k].row + 1][cells[k].col + 1]
                  /\ cells[k].match = (cells[k].expected = cells[k].actual)
            /\ table_result.mismatches =
                  Cardinality(unmatched) + Cardinality(GTCells \ CommonCells)
            /\ table_result.matched_cells + table_result.mismatches
                  = table_result.total_cells

\* C12 witness: expected 3x2 against an extracted 2x2 whose cells all
\* match: total_cells is 6 and the 2 cells of the missing row are the
\* mismatches.
C12_Witness ==
    /\ TableCompared
    /\ Len(gt_df.rows) = 3 /\ Len(gt_df.columns) = 2
    /\ Len(ext_df.rows) = 2 /\ Len(ext_df.columns) = 2
    /\ table_result.total_cells = 6
    /\ table_result.matched_cells = 4
    /\ table_result.mismatches = 2

CellsCompared == cmode = "cells" /\ cpc = "done"

\* C13 as stated: compare(x, x) is (true, "exact") for every string x other
\* than the empty string, under every configuration.
C13_SameNonEmptyStringIsExact ==
    (CellsCompared /\ c_expected = c_actual
        /\ c_expected # NoneCell /\ c_expected # << >>)
    => cell_result = CellResult(TRUE, "exact")

\* C13: compare(x, x) is (true, "exact") for every string x that does not
\* trim to the empty string, under every configuration of
\* normalize_whitespace, case_insensitive and numeric_tolerance.
C13_SameNonBlankStringIsExact ==
    (CellsCompared /\ c_expected = c_actual
        /\ c_expected # NoneCell /\ Strip(c_expected) # << >>)
    => cell_result = CellResult(TRUE, "exact")

\* C13 witness: a text with a leading blank compared with itself while
\* both normalizations are on.
C13_Witness ==
    /\ CellsCompared
    /\ c_expected = << " ", "a" >>
    /\ c_actual = c_expected
    /\ normalize_whitespace
    /\ case_insensitive
    /\ cell_result = CellResult(TRUE, "exact")

\* |e - a| <= t, or e # 0 and |e - a| / |e| <= t, for floats e, a and a
\* tolerance t that are counts of 1/FloatScale.
WithinTolerance(e, a, t) ==
    LET d == IF e >= a THEN e - a ELSE a - e
        m == IF e >= 0 THEN e ELSE 0 - e
        g == GCD(FloatScale, t)
    IN  \/ d <= t
        \/ e # 0 /\ d <= ((t \div g) * m) \div (FloatScale \div g)

ReachesNumericStep ==
    /\ CellsCompared
    /\ c_expected # c_actual
    /\ _normalize(c_expected, normalize_whitespace, case_insensitive)
         # _normalize(c_actual, normalize_whitespace, case_insensitive)
    /\ _parse_number(c_expected) # None
    /\ _parse_number(c_actual) # None

OneThousand == << "1", "0", "0", "0" >>

\* C14: when neither exact nor normalized equality holds and both values
\* parse as numbers, the result is (true, "numeric") exactly when the two
\* numbers are within the absolute or the relative tolerance, and
\* (false, "mismatch") otherwise; with the default tolerance "1000" against
\* "1000.0005" matches and "1000" against "1002" does not.
C14_NumericStep ==
    /\ ReachesNumericStep =>
          cell_result =
              IF WithinTolerance(_parse_number(c_expected)[1],
                                 _parse_number(c_actual)[1], numeric_tolerance)
              THEN CellResult(TRUE, "numeric")
              ELSE CellResult(FALSE, "mismatch")
    /\ (CellsCompared /\ numeric_tolerance = DefaultTolerance
          /\ c_expected = OneThousand) =>
          /\ c_actual = << "1", "0", "0", "0", ".", "0", "0", "0", "5" >> =>
                cell_result = CellResult(TRUE, "numeric")
          /\ c_actual = << "1", "0", "0", "2" >> =>
                cell_result = CellResult(FALSE, "mismatch")

\* C14 witness: with the default tolerance "1000" against "1000.5" is
\* outside the absolute tolerance, inside the relative one, and "numeric".
C14_Witness ==
    /\ ReachesNumericStep
    /\ numeric_tolerance = DefaultTolerance
    /\ c_expected = OneThousand
    /\ c_actual = << "1", "0", "0", "0", ".", "5" >>
    /\ cell_result = CellResult(TRUE, "numeric")

\* The number a string denotes when sep is its decimal separator: an
\* optional sign, then digits with at most one sep among them and at least
\* one digit; None for any other string.
ReadDecimal(s, sep) ==
    LET signed == Len(s) >= 1 /\ s[1] \in { "-", "+" }
        first == IF signed THEN 2 ELSE 1
        seps == { i \in first..Len(s) : s[i] = sep }
        digitPos == { i \in first..Len(s) : IsDigitChar(s[i]) }
        digits == SelectSeq(SubSeq(s, first, Len(s)), IsDigitChar)
        decimals == Cardinality({ i \in digitPos : \E j \in seps : j < i })
        magnitude == (IntOf(digits) * FloatScale) \div Pow10(decimals)
    IN  IF Cardinality(seps) <= 1 /\ digitPos # {}
           /\ digitPos \cup seps = first..Len(s)
        THEN Some(IF signed /\ s[1] = "-" THEN 0 - magnitude ELSE magnitude)
        ELSE None

Without(s, ch) == SelectSeq(s, LAMBDA x : x # ch)

\* The parsing rule: with both "," and "." present the right-most of them
\* is the decimal separator and the other one is removed; a "," alone is
\* the decimal separator.
ParsingRule(v) ==
    LET cleaned == SelectSeq(v, LAMBDA x : x \notin { "$", " " })
        lastComma == RFind(cleaned, ",")
        lastDot == RFind(cleaned, ".")
    IN  IF lastComma > 0 /\ lastDot > 0
        THEN IF lastComma > lastDot
             THEN ReadDecimal(Without(cleaned, "."), ",")
             ELSE ReadDecimal(Without(cleaned, ","), ".")
        ELSE IF lastComma > 0 THEN ReadDecimal(cleaned, ",")
        ELSE ReadDecimal(cleaned, ".")

NumberParsed == cmode = "parse" /\ cpc = "done"

\* 1234.56 in units of 1/FloatScale
Float1234_56 == (123456 * FloatScale) \div 100

\* C15: _parse_number follows the parsing rule for every string: currency
\* symbols and whitespace are stripped, the right-most of "," and "." is
\* the decimal separator when both occur, a "," alone is the decimal
\* separator, an unparseable result gives None; "1.234,56" and "1,234.56"
\* both give 1234.56.
C15_ParseNumberRule ==
    NumberParsed =>
        /\ parsed = ParsingRule(c_value)
        /\ c_value \in { << "1", ".", "2", "3", "4", ",", "5", "6" >>,
                         << "1", ",", "2", "3", "4", ".", "5", "6" >> }
              => parsed = Some(Float1234_56)

\* C15 witness: "1.234,56" has been parsed to 1234.56.
C15_Witness ==
    /\ NumberParsed
    /\ c_value = << "1", ".", "2", "3", "4", ",", "5", "6" >>
    /\ parsed = Some(Float1234_56)

AllCountersZero(m) == \A f \in DOMAIN m : m[f] = 0

IsZero(q) == q[1] = 0

\* C16: for a tool whose counters are all zero every derived ratio metric
\* is 0.0: success_rate, structure_accuracy, cell_accuracy, exact_accuracy,
\* header_accuracy and avg_time_ms of CSVToolMetrics, and table_accuracy,
\* table_page_accuracy, spanning_recall, image_accuracy and avg_time_ms of
\* ToolMetrics.
C16_ZeroCountersGiveZeroRatios ==
    \A t \in DOMAIN tool_metrics :
        AllCountersZero(tool_metrics[t]) =>
            IF runner = "csv"
            THEN /\ IsZero(success_rate(tool_metrics[t]))
                 /\ IsZero(structure_accuracy(tool_metrics[t]))
                 /\ IsZero(cell_accuracy(tool_metrics[t]))
                 /\ IsZero(exact_accuracy(tool_metrics[t]))
                 /\ IsZero(header_accuracy(tool_metrics[t]))
                 /\ IsZero(csv_avg_time_ms(tool_metrics[t]))
            ELSE /\ IsZero(table_accuracy(tool_metrics[t]))
                 /\ IsZero(table_page_accuracy(tool_metrics[t]))
                 /\ IsZero(spanning_recall(tool_metrics[t]))
                 /\ IsZero(image_accuracy(tool_metrics[t]))
                 /\ IsZero(avg_time_ms(tool_metrics[t]))

\* ------------------------------------------------------------------------
\* Properties of the ranking
\* ------------------------------------------------------------------------
Ranked == kpc = "done"

\* The registration position of the adapter at place i of the ranking.
Registered(i) ==
    CHOOSE j \in 1..Len(k_tool_metrics) : k_tool_metrics[j][1] = k_ranking[i][1]

\* C17: get_ranking(metric) returns every adapter once, with its value of
\* the metric, in descending order of the value, ascending for
\* avg_time_ms; adapters of equal value keep their registration order in
\* both directions.
C17_RankingOrder ==
    Ranked =>
        /\ Len(k_ranking) = Len(k_tool_metrics)
        /\ \A j \in 1..Len(k_tool_metrics) :
              \E i \in 1..Len(k_ranking) :
                  /\ k_ranking[i][1] = k_tool_metrics[j][1]
                  /\ k_ranking[i][2] = GetAttr(k_kind, k_tool_metrics[j][2], k_metric)
        /\ \A i, j \in 1..Len(k_ranking) :
              i < j =>
                  /\ IF k_metric = "avg_time_ms"
                     THEN ~Less(k_ranking[j][2], k_ranking[i][2])
                     ELSE ~Less(k_ranking[i][2], k_ranking[j][2])
                  /\ (~Less(k_ranking[i][2], k_ranking[j][2])
                        /\ ~Less(k_ranking[j][2], k_ranking[i][2]))
                     => Registered(i) < Registered(j)

\* C17 witness: a descending ranking of three adapters in which the one
\* registered last comes first and the other two, of equal value, follow in
\* registration order.
C17_Witness ==
    /\ Ranked
    /\ k_metric # "avg_time_ms"
    /\ Len(k_ranking) = 3
    /\ k_ranking[1][1] = k_tool_metrics[3][1]
    /\ k_ranking[2][1] = k_tool_metrics[1][1]
    /\ k_ranking[3][1] = k_tool_metrics[2][1]
    /\ Less(k_ranking[2][2], k_ranking[1][2])
    /\ k_ranking[2][2] = k_ranking[3][2]


\* ------------------------------------------------------------------------
\* C18. During a run, processing one (document, adapter) pair changes only
\* the metrics object of that adapter: the counters of every other adapter
\* in the list (every other position of self.extractors) are the same after
\* the step as before it, for every list of adapters passed to the runner.
\* ------------------------------------------------------------------------
\* The metrics an adapter of the list reads and updates: result.tool_metrics
\* at the adapter's name.
MetricsOf(position) == tool_metrics[extractors[position]]

PairStep ==
    /\ run_pc = "running"
    /\ file_idx <= Len(files)
    /\ extract_calls' # extract_calls

OtherAdaptersKeepCounters ==
    PairStep =>
        \A other \in (1..Len(extractors)) \ { ext_idx } :
            tool_metrics'[extractors[other]] = MetricsOf(other)

C18_OnlyOwnMetricsChange == [][OtherAdaptersKeepCounters]_vars


\* ------------------------------------------------------------------------
\* C19. A benchmark run never mutates the ground truth: no step of a run,
\* from its start to its return, changes the manifest; it keeps the same
\* entries in the same order and every field of every entry keeps its
\* value, in the page-range run and in the cell-content run.
\* ------------------------------------------------------------------------
RunStep == run_pc = "running" /\ run_pc' \in { "running", "returned", "raised" }

C19_RunKeepsGroundTruth == [][RunStep => manifest' = manifest]_vars


\* ------------------------------------------------------------------------
\* C20. Ground-truth manifests keep their keys unique: starting from an
\* empty manifest, after any sequence of add and remove calls no two
\* entries share a key (file_name in GroundTruthManifest, the pair
\* (file_name, table_id) in CSVGroundTruthManifest); add of an existing key
\* replaces the earlier entry (the entries of the other keys stay, in
\* order, and the new entry is the only one of its key), and remove returns
\* true exactly when an entry with that key existed, and afterwards no
\* entry has that key.
\* ------------------------------------------------------------------------
\* The entries of the manifest in use, and the key of an entry.
Entries == IF m_kind = "pages" THEN documents ELSE csv_tables

KeyOf(entry) ==
    IF m_kind = "pages" THEN << entry.file_name >>
    ELSE << entry.file_name, entry.table_id >>

CallKey(call) ==
    IF m_kind = "pages" THEN << call.file_name >>
    ELSE << call.file_name, call.table_id >>

UniqueKeys ==
    \A i, j \in 1..Len(Entries) : KeyOf(Entries[i]) = KeyOf(Entries[j]) => i = j

OtherKeys(entries, key) == SelectSeq(entries, LAMBDA t : KeyOf(t) # key)

HasKey(entries, key) == \E i \in 1..Len(entries) : KeyOf(entries[i]) = key

AddReplaces ==
    m_call'.op = "add" =>
        Entries' = Append(OtherKeys(Entries, CallKey(m_call')), m_call'.entry[1])

RemoveReturns ==
    m_call'.op = "remove" =>
        /\ m_call'.returned = Some(HasKey(Entries, CallKey(m_call')))
        /\ Entries' = OtherKeys(Entries, CallKey(m_call'))

C20_ManifestKeysUnique ==
    /\ []UniqueKeys
    /\ [][AddReplaces /\ RemoveReturns]_vars

\* An add has replaced an entry of its key by a different one in a
\* manifest that holds other entries too.
C20_Witness ==
    /\ m_kind = "csv"
    /\ m_call.op = "add"
    /\ m_call.existing # None
    /\ m_call.existing # m_call.entry
    /\ Len(csv_tables) >= 2


\* ------------------------------------------------------------------------
\* C21. Both manifests round-trip losslessly: for every DocumentGroundTruth
\* d of a manifest (with its TableDefinitions) from_dict(to_dict(d)) has the
\* field values of d, for every CSVGroundTruth c from_dict(to_dict(c)) has
\* the persisted field values of c, and load after save yields the same
\* entries in the same order.
\* ------------------------------------------------------------------------
\* The fields of a CSVGroundTruth that to_dict writes.
PersistedFields(c) == [c EXCEPT !._dataframe = None]

EntryRoundTrips ==
    \A i \in 1..Len(s_manifest) :
        IF s_kind = "pages"
        THEN DocFromDict(DocToDict(s_manifest[i])) = s_manifest[i]
        ELSE CSVFromDict(CSVToDict(s_manifest[i])) = PersistedFields(s_manifest[i])

LoadedIsSaved ==
    spc = "loaded" =>
        s_loaded = Some(IF s_kind = "pages" THEN s_manifest
                        ELSE [ i \in 1..Len(s_manifest) |->
                                 PersistedFields(s_manifest[i]) ])

C21_ManifestsRoundTrip == EntryRoundTrips /\ LoadedIsSaved


\* ------------------------------------------------------------------------
\* C22. Partial matching: at a ground-truth turn at which no not-yet-used
\* extracted table has exactly the entry's range, the entry is paired with
\* the first not-yet-used extracted table, in list order, whose range
\* overlaps it, and that table is the one consumed.
\* ------------------------------------------------------------------------
OverlapCandidates(k) == OverlapFor(k) \cap UnusedAt(k)

FirstOf(S) == CHOOSE i \in S : \A j \in S : i <= j

C22_PartialTakesFirstOverlap ==
    \A k \in Turns :
        ((ExactFor(k) \cap UnusedAt(k)) = {} /\ OverlapCandidates(k) # {})
            => /\ best_matches[k] = FirstOf(OverlapCandidates(k))
               /\ Main[FirstOf(OverlapCandidates(k))].table_id \in UsedAt(k + 1)


\* ------------------------------------------------------------------------
\* C23. Whenever a fragment on page p is classified as a continuation, the
\* continuation counter increases by exactly 1, no new table_id is
\* allocated, and the owning logical table (the one the previous page's
\* last fragment belongs to) gets continues_to_page = p; the page ranges of
\* all other logical tables are unchanged.
\* ------------------------------------------------------------------------
\* The step that processes a fragment classified as a continuation.
ContinuationStep ==
    /\ dpc = "tables"
    /\ idx <= Len(page_tables)
    /\ idx' = idx + 1
    /\ IsContinuation(idx, page_tables[idx], last_table_info,
                      PageHeight(page_number), detect_continuations)

\* The logical table of the last fragment seen, as an index of the list.
OwnerOfLast ==
    CHOOSE i \in 1..Len(d_extracted_tables) :
        /\ ~d_extracted_tables[i].is_continuation
        /\ d_extracted_tables[i].table_id =
               d_extracted_tables[Len(d_extracted_tables)].table_id

LogicalIds(tables) ==
    { tables[i].table_id : i \in { n \in 1..Len(tables) : ~tables[n].is_continuation } }

ContinuationFolds ==
    ContinuationStep =>
        /\ total_continuations' = total_continuations + 1
        /\ logical_table_id' = logical_table_id
        /\ LogicalIds(d_extracted_tables') = LogicalIds(d_extracted_tables)
        /\ d_extracted_tables'[Len(d_extracted_tables')].table_id =
               d_extracted_tables[OwnerOfLast].table_id
        /\ \A i \in 1..Len(d_extracted_tables) :
              ~d_extracted_tables[i].is_continuation =>
                  /\ d_extracted_tables'[i].page = d_extracted_tables[i].page
                  /\ d_extracted_tables'[i].continues_to_page =
                         IF i = OwnerOfLast THEN page_number
                         ELSE d_extracted_tables[i].continues_to_page

C23_ContinuationExtendsOwner == [][ContinuationFolds]_vars

\* A continuation has been folded into the second logical table while the
\* first one kept its range.
C23_Witness ==
    /\ total_continuations >= 1
    /\ \E i \in 1..Len(d_extracted_tables) :
          /\ d_extracted_tables[i].is_continuation
          /\ d_extracted_tables[i].table_id = 2
    /\ \E j \in 1..Len(d_extracted_tables) :
          /\ ~d_extracted_tables[j].is_continuation
          /\ d_extracted_tables[j].table_id = 2
          /\ d_extracted_tables[j].continues_to_page = d_extracted_tables[j].page + 1


\* ------------------------------------------------------------------------
\* C24. Id allocation: for every page sequence the logical
\* (non-continuation) tables emitted carry the table_ids 1, 2, ..., n in
\* first-seen order, with no gap and no repeat; n is the reported table
\* count, and n plus the continuation counter is the number of fragments
\* seen.
\* ------------------------------------------------------------------------
LogicalTables == SelectSeq(d_extracted_tables, LAMBDA t : ~t.is_continuation)

C24_IdsAreOneToN ==
    /\ \A k \in 1..Len(LogicalTables) : LogicalTables[k].table_id = k
    /\ Len(LogicalTables) = logical_table_id
    /\ Len(LogicalTables) + total_continuations = Len(d_extracted_tables)
    /\ dpc = "done" =>
          /\ d_result.count = Len(LogicalTables)
          /\ d_result.count + d_result.continuations = FragmentsSeen

\* A document of three fragments has returned two logical tables and one
\* continuation.
C24_Witness ==
    /\ dpc = "done"
    /\ d_result.count = 2
    /\ d_result.continuations = 1
    /\ FragmentsSeen = 3


\* ------------------------------------------------------------------------
\* C25. Continuation predicate.  As stated: the first fragment of a page is
\* classified as a continuation exactly when tracking state from the
\* previous page exists and all three conditions hold: its column count
\* equals the retained fragment's, the retained fragment's bottom edge is
\* greater than 80% of its own page's height, and the current fragment's
\* top edge is less than 20% of the current page's height; if any one
\* fails it starts a new logical table.
\* ------------------------------------------------------------------------
\* The step that processes the first fragment of a page.
FirstFragmentStep ==
    /\ dpc = "tables"
    /\ idx = 1
    /\ idx <= Len(page_tables)
    /\ idx' = idx + 1

\* How the step classified the fragment.
ClassifiedContinuation ==
    /\ legacy_data'[Len(legacy_data')].is_continuation
    /\ d_extracted_tables'[Len(d_extracted_tables')].is_continuation
    /\ logical_table_id' = logical_table_id

StartsNewTable ==
    /\ ~legacy_data'[Len(legacy_data')].is_continuation
    /\ ~d_extracted_tables'[Len(d_extracted_tables')].is_continuation
    /\ logical_table_id' = logical_table_id + 1

TrackingExists == last_table_info # NoInfo

SameColumns == page_tables[1].col_count = last_table_info.cols

RanToBottom == 5 * last_table_info.y1 > 4 * last_table_info.page_height

StartsNearTop ==
    5 * BBox(page_tables[1], PageHeight(page_number))[2] < PageHeight(page_number)

ThreeConditions == TrackingExists /\ SameColumns /\ RanToBottom /\ StartsNearTop

C25_PredicateAsStated ==
    [][FirstFragmentStep =>
          IF ThreeConditions THEN ClassifiedContinuation ELSE StartsNewTable]_vars

\* C25 amended: with continuation detection enabled the first fragment of a
\* page is classified as a continuation exactly when tracking state exists
\* and the three conditions hold, and else starts a new logical table; with
\* detection disabled it always starts a new logical table.
C25_PredicateWhenDetecting ==
    [][FirstFragmentStep =>
          IF detect_continuations /\ ThreeConditions
          THEN ClassifiedContinuation ELSE StartsNewTable]_vars

\* Page 2 began with a continuation and page 3, with tracking state at
\* hand, with a new table.
C25_Witness ==
    /\ detect_continuations
    /\ Len(legacy_data) = 3
    /\ legacy_data[2].page = 2 /\ legacy_data[2].is_continuation
    /\ legacy_data[3].page = 3 /\ ~legacy_data[3].is_continuation

\* ------------------------------------------------------------------------
\* C26, C27: the emptiness step and the normalized step of the cell
\* comparator
\* ------------------------------------------------------------------------
\* A value that is a missing marker or consists of blanks only.
Blank(value) == value = NoneCell \/ \A i \in 1..Len(value) : value[i] = " "

\* C26: the emptiness step runs first and wins: a value is empty when it is
\* a missing marker or its string form trims to the empty string; two
\* empty values give (true, "empty"), exactly one empty value gives
\* (false, "mismatch"), under every configuration, and a result of type
\* "empty" comes from nowhere else.
C26_EmptinessFirst ==
    CellsCompared =>
        /\ (Blank(c_expected) /\ Blank(c_actual)) =>
              cell_result = CellResult(TRUE, "empty")
        /\ (Blank(c_expected) # Blank(c_actual)) =>
              cell_result = CellResult(FALSE, "mismatch")
        /\ cell_result.match_type = "empty" =>
              (Blank(c_expected) /\ Blank(c_actual))

\* C26 witness: a cell of one blank against the empty string, and a missing
\* cell against a number.
C26_Witness ==
    /\ CellsCompared
    /\ \/ /\ c_expected = << " " >> /\ c_actual = << >>
          /\ cell_result = CellResult(TRUE, "empty")
       \/ /\ c_expected = NoneCell /\ c_actual = << "5" >>
          /\ cell_result = CellResult(FALSE, "mismatch")

\* value.split(): the words of a string, the runs of non-blank characters.
RECURSIVE Words(_)
Words(s) ==
    IF s = << >> THEN << >>
    ELSE IF Head(s) = " " THEN Words(Tail(s))
    ELSE LET rest == Words(Tail(s))
         IN  IF Len(s) > 1 /\ s[2] # " "
             THEN << << Head(s) >> \o Head(rest) >> \o Tail(rest)
             ELSE << << Head(s) >> >> \o rest

\* Lower-casing when case-insensitivity is configured.
Cased(s) == IF case_insensitive THEN Lower(s) ELSE s

\* Two non-empty values that are not exactly equal.
ReachesNormalizedStep ==
    /\ CellsCompared
    /\ ~Blank(c_expected) /\ ~Blank(c_actual)
    /\ c_expected # c_actual

\* C27 as stated: the values match with type "normalized" whenever they
\* have the same words (are equal after the collapse of blank runs and the
\* trim), whatever normalize_whitespace is, with lower-casing only when
\* case_insensitive is set.
C27_CollapseAlways ==
    ReachesNormalizedStep =>
        ( cell_result = CellResult(TRUE, "normalized")
          <=> Words(Cased(c_expected)) = Words(Cased(c_actual)) )

\* C27: the values match with type "normalized" exactly when they are
\* equal after the trim, which is applied always, after the collapse of
\* blank runs when normalize_whitespace is configured, and after
\* lower-casing when case_insensitive is configured.
C27_CollapseWhenConfigured ==
    ReachesNormalizedStep =>
        ( cell_result = CellResult(TRUE, "normalized")
          <=> IF normalize_whitespace
              THEN Words(Cased(c_expected)) = Words(Cased(c_actual))
              ELSE Strip(Cased(c_expected)) = Strip(Cased(c_actual)) )

\* C27 witness: "a  b" against "a b" is a normalized match with
\* normalize_whitespace and a mismatch without it.
C27_Witness ==
    /\ ReachesNormalizedStep
    /\ c_expected = << "a", " ", " ", "b" >>
    /\ c_actual = << "a", " ", "b" >>
    /\ ~normalize_whitespace
    /\ cell_result = CellResult(FALSE, "mismatch")

\* ------------------------------------------------------------------------
\* C28, C29: the records and the counters of the CSV run
\* ------------------------------------------------------------------------
\* The calls of the run so far for a file and an adapter name: the pairs
\* processed.
PairsProcessed(file, tool) ==
    { i \in 1..Len(extract_calls) :
        extract_calls[i].file = file /\ extract_calls[i].tool = tool }

\* The comparison records of a ground-truth table under an adapter name.
RecordsOf(file, tool, table_id) ==
    { k \in 1..Len(table_comparisons) :
        /\ table_comparisons[k].file_name = file
        /\ table_comparisons[k].tool_name = tool
        /\ table_comparisons[k].table_id = table_id }

\* The ground-truth tables of the pairs processed under an adapter name.
TablesDue(tool) ==
    SeqSum([ i \in 1..Len(extract_calls) |->
               IF extract_calls[i].tool = tool
               THEN Len(get_all_for_file(manifest, extract_calls[i].file))
               ELSE 0 ])

\* C28: in the CSV run every processed (document, adapter) pair has left
\* exactly one comparison record per ground-truth table of the document
\* and has incremented the adapter's total_tables once per table, on every
\* path: error result, table not found, comparison, or an exception at any
\* point of the pair.
C28_OneRecordPerTable ==
    runner = "csv" =>
        /\ \A i \in 1..Len(extract_calls) :
             LET call == extract_calls[i]
                 gts == get_all_for_file(manifest, call.file)
             IN  \A k \in 1..Len(gts) :
                    Cardinality(RecordsOf(call.file, call.tool, gts[k].table_id))
                        = Cardinality(PairsProcessed(call.file, call.tool))
        /\ \A tool \in DOMAIN tool_metrics :
             tool_metrics[tool].total_tables = TablesDue(tool)

\* The comparison records of an adapter name whose error is None.
ErrorFreeRecords(tool) ==
    { k \in 1..Len(table_comparisons) :
        /\ table_comparisons[k].tool_name = tool
        /\ table_comparisons[k].error = None }

\* C29: at every point of the CSV run an adapter's successful_extractions
\* is the number of its comparison records whose error is None (a record
\* with an error is never counted as successful), and it is at most
\* total_tables.
C29_SuccessfulAreErrorFree ==
    runner = "csv" =>
        \A tool \in DOMAIN tool_metrics :
            /\ tool_metrics[tool].successful_extractions
                  = Cardinality(ErrorFreeRecords(tool))
            /\ tool_metrics[tool].successful_extractions
                  <= tool_metrics[tool].total_tables

\* ------------------------------------------------------------------------
\* C30: the counts of a table comparison
\* ------------------------------------------------------------------------
\* TableComparisonResult.cell_accuracy and exact_accuracy, as fractions.
result_cell_accuracy(r) ==
    IF r.total_cells = 0 THEN Zero ELSE Ratio(r.matched_cells, r.total_cells)

result_exact_accuracy(r) ==
    IF r.total_cells = 0 THEN Zero ELSE Ratio(r.exact_matches, r.total_cells)

\* A fraction n/d with 0 <= n/d <= 1.
InUnitInterval(q) == q[2] > 0 /\ 0 <= q[1] /\ q[1] <= q[2]

FramesCompared == cmode \in { "tables", "mixed" } /\ cpc = "done"

\* C30: every error-free table comparison result has matched_cells +
\* mismatches = total_cells and matched_cells = exact_matches +
\* normalized_matches + numeric_matches + empty_matches, for all
\* dimensions of the expected and the extracted table, and its
\* cell_accuracy and exact_accuracy lie in [0, 1].
C30_CountsAddUp ==
    FramesCompared =>
        /\ table_result.matched_cells + table_result.mismatches
              = table_result.total_cells
        /\ table_result.matched_cells
              = table_result.exact_matches + table_result.normalized_matches
                + table_result.numeric_matches + table_result.empty_matches
        /\ InUnitInterval(result_cell_accuracy(table_result))
        /\ InUnitInterval(result_exact_accuracy(table_result))

\* C30 witness: a 3x2 ground truth against a 2x2 table with matches of all
\* four types and a mismatch: 2 cells outside the compared block.
C30_Witness ==
    /\ FramesCompared
    /\ Len(gt_df.rows) = 3 /\ Len(ext_df.rows) = 2
    /\ table_result.total_cells = 6
    /\ table_result.exact_matches = 0
    /\ table_result.normalized_matches = 1
    /\ table_result.numeric_matches = 1
    /\ table_result.empty_matches = 1
    /\ table_result.matched_cells = 3
    /\ table_result.mismatches = 3

=============================================================================
